---- MODULE Spec2Model ----
(***************************************************************************)
(* A model of the TCP reverse HTTP tunnel of src/pointcloud:               *)
(*   TCPTunnelServer (tcp_tunnel_server.py), the frontend F, and           *)
(*   TCPTunnelClient (tcp_tunnel_client.py), the tunnel client C.          *)
(*                                                                         *)
(* Every coroutine is cut at its await points: one action is the code      *)
(* that runs between two suspensions.  A tunnel byte stream is a sequence  *)
(* of tokens; one frame is four tokens (length, signature, and the JSON    *)
(* payload in two pieces), so that a read can return a part of a frame or  *)
(* run over the end of one.                                                *)
(***************************************************************************)
EXTENDS Integers, Sequences, FiniteSets, TLC

(***************************************************************************)
(* Bounds of the model.                                                    *)
(***************************************************************************)
NConns == 2          \* public HTTP connections
MaxEnv == 1          \* adverse events: a lost tunnel connection, a frame of the
                     \* rogue peer, bytes altered in flight, a jump of the clock
TickStep == 400      \* seconds per jump of the clock

(***************************************************************************)
(* Program constants.                                                      *)
(***************************************************************************)
InactiveTimeout == 300     \* cleanup_inactive_clients: 5 minutes
WebChunk == 1              \* chunk_size of handle_client, in units of data
MsgChunk == 2              \* chunk_size of send_response_to_server, in tokens

Conns == 1..NConns
TConns == {1, 2}           \* tunnel connection 1: the TCPTunnelClient; 2: a rogue peer
CliConn == 1
RogueConn == 2

SecretKey == "secret"      \* --secret-key, the same on both peers
WrongKey == "wrong"        \* any key that is not the secret

ClientId == 1              \* TCPTunnelClient.client_id (a uuid4)
RogueId == 2               \* a client_id the rogue peer makes up
NoId == 0                  \* Python's None for a missing 'request_id'

(***************************************************************************)
(* Frame codec.                                                            *)
(***************************************************************************)
\* json.dumps(obj).encode('utf-8'): the payload bytes, in two pieces.
json_dumps(p) ==
    << [k |-> "head", type |-> p.type, id |-> p.id],
       [k |-> "tail", data |-> p.data] >>

\* json.loads succeeds exactly on one whole object: not on a part of one,
\* not on one followed by further bytes ("Extra data"), not on garbled bytes.
json_ok(buf) ==
    /\ Len(buf) = 2
    /\ buf[1].k = "head"
    /\ buf[2].k = "tail"

json_loads(buf) ==
    [type |-> buf[1].type, id |-> buf[1].id, data |-> buf[2].data]

\* Variants of verify_signature: one whose result is not used, and one
\* that checks who signed but not what was signed.
verify_signature_unused(data, signature) == TRUE
verify_signature_keyonly(data, signature) == signature.key = SecretKey

\* hmac.new(key, data, sha256).hexdigest(): a function of the key and of
\* every byte of the data, taken to be free of collisions.
create_signature(key, data) == [key |-> key, over |-> data]

verify_signature(data, signature) ==
    signature = create_signature(SecretKey, data)

\* len(sig).to_bytes(4) + sig + json_data
Message(signature, json_data) ==
    << [k |-> "len"], [k |-> "sig", s |-> signature] >> \o json_data

SignedMessage(key, p) ==
    Message(create_signature(key, json_dumps(p)), json_dumps(p))

RegisterPayload(cid) == [type |-> "register", id |-> cid, data |-> <<>>]
RequestPayload(rid, d) == [type |-> "request", id |-> rid, data |-> d]
ResponsePayload(rid, d) == [type |-> "response", id |-> rid, data |-> d]

\* The request_id a frame carries, NoId when it carries none.
CarriedId(p) == IF p.type = "response" THEN p.id ELSE NoId

\* The payload bytes of a message, and the request_id it carries.
PayloadOf(m) == SubSeq(m, 3, Len(m))
MessageId(m) == CarriedId(json_loads(PayloadOf(m)))

Prefixes(s) == { SubSeq(s, 1, n) : n \in 0..Len(s) }

VARIABLES
    now,               \* time.time()
    sweptAt,           \* cleanup_inactive_clients: current_time at its last run
    clients,           \* self.clients, in dict order: <<[id, writer, last_seen]>>
    pending_requests,  \* self.pending_requests: request id -> web_writer
    nextId,            \* request ids minted so far (uuid4 never repeats)
    webPc,             \* per public connection: where its handler is
    webRid,            \* per public connection: the id F tagged its request with
    webOut,            \* per public connection: what F wrote to it
    webClosed,         \* per public connection: F called close()
    webWriter,         \* forward_to_client: client_writer, the tunnel connection written to
    webFailed,         \* per public connection: "发送响应给Web客户端时出错" printed
    tconn,             \* per tunnel connection: "idle", "open", "lost"
    c2f,               \* per tunnel connection: bytes written to F, unread
    f2c,               \* per tunnel connection: bytes written by F, unread
    srvPhase,          \* handle_client(t): "none","len","sig","payload","deliver","closed"
    srvSig,            \* handle_client(t): signature
    srvBuf,            \* handle_client(t): json_data_buffer
    srvJob,            \* handle_client(t): the response being written out
    sigFailed,         \* per tunnel connection: "签名验证失败" printed by F
    cliSigFailed,      \* "签名验证失败" printed by the client
    cliPhase,          \* TCPTunnelClient: "init","len","sig","payload","local","send","stopped"
    connected,         \* TCPTunnelClient.connected
    cliSig,            \* receive_messages: signature
    cliBuf,            \* receive_messages: json_data_buffer
    cliReq,            \* handle_request: request_data
    cliOut,            \* send_response_to_server: message
    cliSent,           \* send_response_to_server: total_sent
    accepted,          \* ids of the request frames handle_request was called with
    emitted,           \* request_ids of the response frames written in full
    localCalls,        \* the calls to the local service: request id and how the call ended
    wire,              \* frames seen on the client's connection (an eavesdropper's copy)
    envLeft,           \* adverse events left
    http,              \* the HTTP text of one exchange, from the public connection
                       \* to the local service and back
    udp,               \* UDPTunnelServer: its registry, pending table and datagrams
    lastFrame          \* per tunnel connection: the last validly signed frame F
                       \* processed from it, and time.time() at that moment

vars == << now, sweptAt, clients, pending_requests, nextId, webPc, webRid, webOut,
           webClosed, webWriter, webFailed, tconn, c2f, f2c, srvPhase, srvSig, srvBuf, srvJob,
           sigFailed, cliSigFailed, cliPhase, connected, cliSig, cliBuf, cliReq, cliOut,
           cliSent, accepted, emitted, localCalls, wire, envLeft, http, udp, lastFrame >>

srvVars == << srvPhase, srvSig, srvBuf, srvJob, sigFailed, lastFrame >>
cliVars == << cliSigFailed, cliPhase, connected, cliSig, cliBuf, cliReq, cliOut,
              cliSent, accepted, emitted, localCalls >>
webVars == << webPc, webRid, webOut, webClosed, webWriter, webFailed >>
netVars == << tconn, c2f, f2c >>

NoSig == create_signature("", <<>>)
NotUtf8 == [key |-> "", over |-> <<>>, raw |-> TRUE]   \* signature bytes that are not UTF-8
NoJob == [web |-> 0, rid |-> NoId, data |-> <<>>, sent |-> 0]
NoReq == RequestPayload(NoId, <<>>)
NoHttp == [pc |-> "none"]
NoUdp == [pc |-> "none"]
Never == 0 - 1             \* no frame yet
NoFrame == [at |-> Never, type |-> "none", id |-> NoId]

\* TCPTunnelServer.__init__ and TCPTunnelClient.__init__
InitTunnel ==
    /\ now = 0
    /\ sweptAt = 0
    /\ clients = <<>>
    /\ pending_requests = << >>
    /\ nextId = 0
    /\ webPc = [c \in Conns |-> "new"]
    /\ webRid = [c \in Conns |-> NoId]
    /\ webOut = [c \in Conns |-> <<>>]
    /\ webClosed = [c \in Conns |-> FALSE]
    /\ webWriter = [c \in Conns |-> 0]
    /\ webFailed = [c \in Conns |-> FALSE]
    /\ tconn = [t \in TConns |-> "idle"]
    /\ c2f = [t \in TConns |-> <<>>]
    /\ f2c = [t \in TConns |-> <<>>]
    /\ srvPhase = [t \in TConns |-> "none"]
    /\ srvSig = [t \in TConns |-> NoSig]
    /\ srvBuf = [t \in TConns |-> <<>>]
    /\ srvJob = [t \in TConns |-> NoJob]
    /\ sigFailed = [t \in TConns |-> 0]
    /\ lastFrame = [t \in TConns |-> NoFrame]
    /\ cliSigFailed = 0
    /\ cliPhase = "init"
    /\ connected = FALSE
    /\ cliSig = NoSig
    /\ cliBuf = <<>>
    /\ cliReq = NoReq
    /\ cliOut = <<>>
    /\ cliSent = 0
    /\ accepted = <<>>
    /\ emitted = <<>>
    /\ localCalls = <<>>
    /\ wire = {}

Init ==
    /\ http = NoHttp
    /\ udp = NoUdp
    /\ envLeft = MaxEnv
    /\ InitTunnel

(***************************************************************************)
(* The client registry, a dict in insertion order.                         *)
(***************************************************************************)
HasClient(cl, cid) == \E i \in DOMAIN cl : cl[i].id = cid

\* A variant of registry_put that leaves a record already present as it is
\* (setdefault for assignment).
registry_put_keep(cl, cid, w, ts) ==
    IF HasClient(cl, cid)
    THEN cl
    ELSE Append(cl, [id |-> cid, writer |-> w, last_seen |-> ts])

\* self.clients[client_id] = (writer, time.time())
registry_put(cl, cid, w, ts) ==
    LET rec == [id |-> cid, writer |-> w, last_seen |-> ts]
    IN  IF HasClient(cl, cid)
        THEN [i \in DOMAIN cl |-> IF cl[i].id = cid THEN rec ELSE cl[i]]
        ELSE Append(cl, rec)

\* A variant of registry_touch that writes the record back with an unset
\* time in place of the current one.
registry_touch_unset(cl, w, ts) ==
    [i \in DOMAIN cl |-> IF cl[i].writer = w THEN [cl[i] EXCEPT !.last_seen = 0]
                                              ELSE cl[i]]

\* A variant of registry_touch that stores a record, under the client_id
\* the frame carries (None), when the connection has none.
registry_touch_insert(cl, w, ts) ==
    IF \E i \in DOMAIN cl : cl[i].writer = w
    THEN [i \in DOMAIN cl |-> IF cl[i].writer = w THEN [cl[i] EXCEPT !.last_seen = ts]
                                                  ELSE cl[i]]
    ELSE Append(cl, [id |-> NoId, writer |-> w, last_seen |-> ts])

\* for client_id, (client_writer, _) in self.clients.items():
\*     if client_writer == writer: self.clients[client_id] = (writer, now); break
registry_touch(cl, w, ts) ==
    LET hits == { i \in DOMAIN cl : cl[i].writer = w }
    IN  IF hits = {} THEN cl
        ELSE LET first == CHOOSE i \in hits : \A j \in hits : i <= j
             IN  [cl EXCEPT ![first].last_seen = ts]

\* A variant that empties the registry when a connection ends.
registry_drop_all(cl, w) == << >>

\* finally: del self.clients[client_id] for every record whose writer is this one
registry_drop_writer(cl, w) == SelectSeq(cl, LAMBDA r : r.writer # w)

\* A variant of is_inactive that takes the limit for minutes.
is_inactive_minutes(r, t) == t - r.last_seen > InactiveTimeout * 60

\* cleanup_inactive_clients
is_inactive(r, t) == t - r.last_seen > InactiveTimeout

registry_sweep(cl, t) == SelectSeq(cl, LAMBDA r : ~is_inactive(r, t))

\* list(self.clients.values())[0][0]
select_client_writer(cl) == cl[1].writer

(***************************************************************************)
(* The pending table, a dict keyed by request id.                          *)
(***************************************************************************)
pending_has(pend, rid) == rid \in DOMAIN pend

pending_put(pend, rid, web) ==
    [r \in (DOMAIN pend) \cup {rid} |-> IF r = rid THEN web ELSE pend[r]]

\* A variant that reads the record and leaves it in the table (get for pop).
pending_pop_keep(pend, rid) == pend

pending_pop(pend, rid) == [r \in (DOMAIN pend) \ {rid} |-> pend[r]]

\* A variant that keeps one writer for all requests: the writer of the
\* request forwarded last.
pending_writer_latest(pend, rid) ==
    pend[CHOOSE r \in DOMAIN pend : \A q \in DOMAIN pend : q <= r]

\* handler_info = self.pending_requests.pop(request_id); handler_info['web_writer']
pending_writer(pend, rid) == pend[rid]

(***************************************************************************)
(* Streams.                                                                *)
(***************************************************************************)
\* A variant of stream_write whose writes are not serialised: the new bytes
\* go out before the last of the bytes still waiting in the stream.
stream_write_unserialised(st, t, data) ==
    IF tconn[t] # "open" THEN st
    ELSE IF st[t] = <<>> THEN [st EXCEPT ![t] = data]
    ELSE [st EXCEPT ![t] = SubSeq(st[t], 1, Len(st[t]) - 1) \o data
                              \o << st[t][Len(st[t])] >>]

\* writer.write(data) on a tunnel connection: the bytes reach the stream
\* while the connection is up, and go nowhere once it is lost.
stream_write(st, t, data) ==
    IF tconn[t] = "open" THEN [st EXCEPT ![t] = st[t] \o data] ELSE st

\* web_writer.write(chunk): what F has written to a public connection.
web_write(out, c, item) == [out EXCEPT ![c] = Append(out[c], item)]

\* A variant of ErrorItem that answers every local error with the same 500.
ErrorItem_always500(status) ==
    [kind |-> "local", rid |-> NoId, off |-> 0, total |-> 1, b |-> <<500>>]

\* One write: the bytes, their offset in the response and the size of the
\* response they belong to; for relayed bytes, the request_id of the frame
\* they were taken from.
ErrorItem(status) ==
    [kind |-> "local", rid |-> NoId, off |-> 0, total |-> 1, b |-> <<status>>]
RelayItem(rid, data, sent, chunk) ==
    [kind |-> "relay", rid |-> rid, off |-> sent, total |-> Len(data), b |-> chunk]

(* F, the public side: handle_web_request and forward_to_client.           *)
(***************************************************************************)
\* handle_web_request has read the request in full and tags it with a fresh
\* id; forward_to_client then runs up to its first await: with a client
\* registered, the frame is written to the first client's writer and the
\* handler waits in client_writer.drain(); with none, the 503 is written and
\* the connection closed.
handle_web_request(c) ==
    /\ webPc[c] = "new"
    /\ nextId' = nextId + 1
    /\ webRid' = [webRid EXCEPT ![c] = nextId + 1]
    /\ IF clients # <<>>
       THEN LET w == select_client_writer(clients)
                request_data == RequestPayload(nextId + 1, <<c>>)
            IN  /\ f2c' = stream_write(f2c, w, SignedMessage(SecretKey, request_data))
                /\ webWriter' = [webWriter EXCEPT ![c] = w]
                /\ webPc' = [webPc EXCEPT ![c] = "drain"]
                /\ UNCHANGED << webOut, webClosed >>
       ELSE /\ webOut' = web_write(webOut, c, ErrorItem(503))
            /\ webClosed' = [webClosed EXCEPT ![c] = TRUE]
            /\ webPc' = [webPc EXCEPT ![c] = "done"]
            /\ UNCHANGED << f2c, webWriter >>
    /\ UNCHANGED << now, sweptAt, http, udp, clients, pending_requests, webFailed, tconn, c2f,
                    srvVars, cliVars, wire, envLeft >>

\* A variant that closes the public connection once the request is
\* forwarded.
forward_drain_ok_closing(c) ==
    /\ webPc[c] = "drain"
    /\ srvPhase[webWriter[c]] # "closed"
    /\ pending_requests' = pending_put(pending_requests, webRid[c], c)
    /\ webClosed' = [webClosed EXCEPT ![c] = TRUE]
    /\ webPc' = [webPc EXCEPT ![c] = "held"]
    /\ UNCHANGED << now, sweptAt, http, udp, clients, nextId, webRid, webOut, webWriter,
                    webFailed, netVars, srvVars, cliVars, wire, envLeft >>

\* await client_writer.drain() returns: the pending record is written and
\* the handler ends, leaving the public connection open.
forward_drain_ok(c) ==
    /\ webPc[c] = "drain"
    /\ srvPhase[webWriter[c]] # "closed"
    /\ pending_requests' = pending_put(pending_requests, webRid[c], c)
    /\ webPc' = [webPc EXCEPT ![c] = "held"]
    /\ UNCHANGED << now, sweptAt, http, udp, clients, nextId, webRid, webOut, webClosed, webWriter,
                    webFailed, netVars, srvVars, cliVars, wire, envLeft >>

\* await client_writer.drain() raises (the tunnel connection is lost or was
\* closed): no pending record; the 500 is written and the connection closed.
forward_drain_fail(c) ==
    /\ webPc[c] = "drain"
    /\ \/ tconn[webWriter[c]] = "lost"
       \/ srvPhase[webWriter[c]] = "closed"
    /\ webOut' = web_write(webOut, c, ErrorItem(500))
    /\ webClosed' = [webClosed EXCEPT ![c] = TRUE]
    /\ webPc' = [webPc EXCEPT ![c] = "done"]
    /\ UNCHANGED << now, sweptAt, http, udp, clients, pending_requests, nextId, webRid, webWriter,
                    webFailed, netVars, srvVars, cliVars, wire, envLeft >>

(***************************************************************************)
(* F, the tunnel side: handle_client(reader, writer) for connection t.     *)
(***************************************************************************)
\* The peer's end of the stream is reached: nothing unread and no more to come.
srv_at_eof(t) == tconn[t] = "lost" /\ c2f[t] = <<>>

\* except IncompleteReadError / finally: every record whose writer is this
\* connection is deleted and the writer closed.
handle_client_finally(t) ==
    /\ clients' = registry_drop_writer(clients, t)
    /\ srvPhase' = [srvPhase EXCEPT ![t] = "closed"]
    /\ srvSig' = [srvSig EXCEPT ![t] = NoSig]
    /\ srvBuf' = [srvBuf EXCEPT ![t] = <<>>]

\* length_data = await reader.readexactly(4)
srv_read_len(t) ==
    /\ srvPhase[t] = "len"
    /\ IF srv_at_eof(t)
       THEN /\ handle_client_finally(t)
            /\ UNCHANGED c2f
       ELSE /\ c2f[t] # <<>>
            /\ c2f' = [c2f EXCEPT ![t] = Tail(c2f[t])]
            /\ srvPhase' = [srvPhase EXCEPT ![t] = "sig"]
            /\ UNCHANGED << clients, srvSig, srvBuf >>
    /\ UNCHANGED << now, sweptAt, http, udp, pending_requests, nextId, webVars, tconn, f2c, srvJob,
                    sigFailed, lastFrame, cliVars, wire, envLeft >>

\* signature_data = await reader.readexactly(signature_length);
\* signature = signature_data.decode('utf-8'), which raises on bytes that
\* are not UTF-8: except Exception, then the finally clause.
srv_read_sig(t) ==
    /\ srvPhase[t] = "sig"
    /\ IF srv_at_eof(t)
       THEN /\ handle_client_finally(t)
            /\ UNCHANGED c2f
       ELSE /\ c2f[t] # <<>>
            /\ c2f' = [c2f EXCEPT ![t] = Tail(c2f[t])]
            /\ IF Head(c2f[t]).s = NotUtf8
               THEN handle_client_finally(t)
               ELSE /\ srvSig' = [srvSig EXCEPT ![t] = Head(c2f[t]).s]
                    /\ srvBuf' = [srvBuf EXCEPT ![t] = <<>>]
                    /\ srvPhase' = [srvPhase EXCEPT ![t] = "payload"]
                    /\ UNCHANGED clients
    /\ UNCHANGED << now, sweptAt, http, udp, pending_requests, nextId, webVars, tconn, f2c, srvJob,
                    sigFailed, lastFrame, cliVars, wire, envLeft >>

\* response_content[total_sent:total_sent + chunk_size]
chunk_of(data, sent, size) ==
    SubSeq(data, sent + 1, IF sent + size < Len(data) THEN sent + size ELSE Len(data))

\* A variant that matches a response to the oldest request still pending,
\* whatever request_id it carries.
request_id_oldest(p) ==
    IF p.type = "response" /\ DOMAIN pending_requests # {}
    THEN CHOOSE r \in DOMAIN pending_requests :
             \A q \in DOMAIN pending_requests : r <= q
    ELSE NoId

\* request_id = response_data.get('request_id')
request_id_of(p) == IF p.type = "response" THEN p.id ELSE NoId

\* The code from the end of the read loop to the next await: the signature
\* check, json.loads, and either the registration or the response branch (up
\* to the first web_writer.drain(), or to the end when there is nothing to
\* write).
srv_process(t, signature, json_data) ==
    IF ~verify_signature(json_data, signature)
    THEN /\ sigFailed' = [sigFailed EXCEPT ![t] = 1]
         /\ srvPhase' = [srvPhase EXCEPT ![t] = "len"]
         /\ UNCHANGED << clients, pending_requests, webOut, webClosed, srvJob, lastFrame >>
    ELSE IF ~json_ok(json_data)
    THEN /\ srvPhase' = [srvPhase EXCEPT ![t] = "len"]
         /\ UNCHANGED << clients, pending_requests, webOut, webClosed, srvJob,
                         sigFailed, lastFrame >>
    ELSE LET response_data == json_loads(json_data)
             request_id == request_id_of(response_data)
         IN  IF response_data.type = "register"
             THEN /\ lastFrame' = [lastFrame EXCEPT ![t] = [at |-> now, type |-> response_data.type,
                                                            id |-> response_data.id]]
                  /\ clients' = registry_put(clients, response_data.id, t, now)
                  /\ srvPhase' = [srvPhase EXCEPT ![t] = "len"]
                  /\ UNCHANGED << pending_requests, webOut, webClosed, srvJob,
                                  sigFailed >>
             ELSE /\ clients' = registry_touch(clients, t, now)
                  /\ lastFrame' = [lastFrame EXCEPT ![t] = [at |-> now, type |-> response_data.type,
                                                            id |-> response_data.id]]
                  /\ UNCHANGED sigFailed
                  /\ IF pending_has(pending_requests, request_id)
                     THEN LET web_writer == pending_writer(pending_requests, request_id)
                              response_content == response_data.data
                          IN  /\ pending_requests' = pending_pop(pending_requests, request_id)
                              /\ IF Len(response_content) = 0
                                 THEN /\ webClosed' = [webClosed EXCEPT ![web_writer] = TRUE]
                                      /\ srvPhase' = [srvPhase EXCEPT ![t] = "len"]
                                      /\ UNCHANGED << webOut, srvJob >>
                                 ELSE /\ webOut' = web_write(webOut, web_writer,
                                             RelayItem(CarriedId(response_data),
                                                 response_content, 0,
                                                 chunk_of(response_content, 0, WebChunk)))
                                      /\ srvJob' = [srvJob EXCEPT ![t] =
                                             [web |-> web_writer,
                                              rid |-> CarriedId(response_data),
                                              data |-> response_content,
                                              sent |-> Len(chunk_of(response_content, 0, WebChunk))]]
                                      /\ srvPhase' = [srvPhase EXCEPT ![t] = "deliver"]
                                      /\ UNCHANGED webClosed
                     ELSE /\ srvPhase' = [srvPhase EXCEPT ![t] = "len"]
                          /\ UNCHANGED << pending_requests, webOut, webClosed, srvJob >>

\* chunk = await reader.read(32768) in the read loop: the chunk is whatever
\* has arrived, a part of the frame or more than the frame; the loop ends
\* when the buffer parses as one JSON object, or at end of stream.
srv_read_payload(t) ==
    /\ srvPhase[t] = "payload"
    /\ \/ /\ srv_at_eof(t)
          /\ srv_process(t, srvSig[t], srvBuf[t])
          /\ srvBuf' = [srvBuf EXCEPT ![t] = <<>>]
          /\ UNCHANGED c2f
       \/ \E n \in 1..Len(c2f[t]) :
            LET buf == srvBuf[t] \o SubSeq(c2f[t], 1, n)
            IN  /\ c2f' = [c2f EXCEPT ![t] = SubSeq(c2f[t], n + 1, Len(c2f[t]))]
                /\ IF json_ok(buf)
                   THEN /\ srv_process(t, srvSig[t], buf)
                        /\ srvBuf' = [srvBuf EXCEPT ![t] = <<>>]
                   ELSE /\ srvBuf' = [srvBuf EXCEPT ![t] = buf]
                        /\ UNCHANGED << clients, pending_requests, webOut, webClosed,
                                        srvPhase, srvJob, sigFailed, lastFrame >>
    /\ UNCHANGED << now, sweptAt, http, udp, nextId, webPc, webRid, webWriter, webFailed, tconn, f2c, srvSig,
                    cliVars, wire, envLeft >>

\* A variant whose write loop ends after the first chunk.
srv_drain_once(t) ==
    /\ srvPhase[t] = "deliver"
    /\ webClosed' = [webClosed EXCEPT ![srvJob[t].web] = TRUE]
    /\ srvJob' = [srvJob EXCEPT ![t] = NoJob]
    /\ srvPhase' = [srvPhase EXCEPT ![t] = "len"]
    /\ UNCHANGED << now, sweptAt, http, udp, clients, pending_requests, nextId, webPc, webRid, webOut,
                    webWriter, webFailed, netVars, srvSig, srvBuf, sigFailed, lastFrame,
                    cliVars, wire, envLeft >>

\* await web_writer.drain() returns: the next chunk is written, or, when all
\* is written, the finally clause closes the public connection.
srv_drain_ok(t) ==
    /\ srvPhase[t] = "deliver"
    /\ LET job == srvJob[t]
       IN  IF job.sent < Len(job.data)
           THEN /\ webOut' = web_write(webOut, job.web,
                       RelayItem(job.rid, job.data, job.sent,
                                 chunk_of(job.data, job.sent, WebChunk)))
                /\ srvJob' = [srvJob EXCEPT ![t].sent =
                       job.sent + Len(chunk_of(job.data, job.sent, WebChunk))]
                /\ UNCHANGED << webClosed, srvPhase >>
           ELSE /\ webClosed' = [webClosed EXCEPT ![job.web] = TRUE]
                /\ srvJob' = [srvJob EXCEPT ![t] = NoJob]
                /\ srvPhase' = [srvPhase EXCEPT ![t] = "len"]
                /\ UNCHANGED webOut
    /\ UNCHANGED << now, sweptAt, http, udp, clients, pending_requests, nextId, webPc, webRid,
                    webWriter, webFailed, netVars, srvSig, srvBuf, sigFailed, lastFrame, cliVars, wire,
                    envLeft >>

\* A variant whose failed write leaves the public connection open (no
\* finally clause).
srv_drain_fail_open(t) ==
    /\ srvPhase[t] = "deliver"
    /\ webFailed' = [webFailed EXCEPT ![srvJob[t].web] = TRUE]
    /\ srvJob' = [srvJob EXCEPT ![t] = NoJob]
    /\ srvPhase' = [srvPhase EXCEPT ![t] = "len"]
    /\ UNCHANGED << now, sweptAt, http, udp, clients, pending_requests, nextId, webPc, webRid, webOut,
                    webClosed, webWriter, netVars, srvSig, srvBuf, sigFailed, lastFrame, cliVars, wire,
                    envLeft >>

\* await web_writer.drain() raises (the public peer is gone): the exception
\* is printed and the finally clause closes the public connection.
srv_drain_fail(t) ==
    /\ srvPhase[t] = "deliver"
    /\ webClosed' = [webClosed EXCEPT ![srvJob[t].web] = TRUE]
    /\ webFailed' = [webFailed EXCEPT ![srvJob[t].web] = TRUE]
    /\ srvJob' = [srvJob EXCEPT ![t] = NoJob]
    /\ srvPhase' = [srvPhase EXCEPT ![t] = "len"]
    /\ UNCHANGED << now, sweptAt, http, udp, clients, pending_requests, nextId, webPc, webRid, webOut,
                    webWriter, netVars, srvSig, srvBuf, sigFailed, lastFrame, cliVars, wire,
                    envLeft >>

\* A variant of the sweep that also closes the tunnel connection of every
\* client it evicts.
cleanup_inactive_clients_closing ==
    /\ sweptAt # now \/ registry_sweep(clients, now) # clients
    /\ sweptAt' = now
    /\ clients' = registry_sweep(clients, now)
    /\ srvPhase' = [t \in TConns |->
                      IF \E i \in DOMAIN clients :
                            clients[i].writer = t /\ is_inactive(clients[i], now)
                      THEN "closed" ELSE srvPhase[t]]
    /\ UNCHANGED << now, http, udp, pending_requests, nextId, webVars, netVars, srvSig,
                    srvBuf, srvJob, sigFailed, lastFrame, cliVars, wire, envLeft >>

\* cleanup_routine: every 60 s, cleanup_inactive_clients().  A run that
\* repeats the previous one at the same time changes nothing and is left out.
cleanup_inactive_clients ==
    /\ sweptAt # now \/ registry_sweep(clients, now) # clients
    /\ sweptAt' = now
    /\ clients' = registry_sweep(clients, now)
    /\ UNCHANGED << now, http, udp, pending_requests, nextId, webVars, netVars, srvVars,
                    cliVars, wire, envLeft >>

\* time passes
Tick ==
    /\ envLeft > 0
    /\ envLeft' = envLeft - 1
    /\ registry_sweep(clients, now) = clients    \* the 60 s sweep has run
    /\ now' = now + TickStep
    /\ UNCHANGED << sweptAt, http, udp, clients, pending_requests, nextId, webVars, netVars, srvVars,
                    cliVars, wire >>

(***************************************************************************)
(* C, the tunnel client: TCPTunnelClient on tunnel connection CliConn.     *)
(***************************************************************************)
\* self.writer.write(data): the bytes reach F's reader while the connection
\* is up and F has not closed its end.
cli_write(data) ==
    IF tconn[CliConn] = "open" /\ srvPhase[CliConn] # "closed"
    THEN [c2f EXCEPT ![CliConn] = c2f[CliConn] \o data]
    ELSE c2f

cli_at_eof ==
    /\ tconn[CliConn] = "lost" \/ srvPhase[CliConn] = "closed"
    /\ f2c[CliConn] = <<>>

\* A variant of connect_to_server that goes on to receive_messages without
\* register_with_server.
connect_to_server_unregistered ==
    /\ cliPhase = "init"
    /\ tconn[CliConn] = "idle"
    /\ tconn' = [tconn EXCEPT ![CliConn] = "open"]
    /\ srvPhase' = [srvPhase EXCEPT ![CliConn] = "len"]
    /\ connected' = TRUE
    /\ cliPhase' = "len"
    /\ UNCHANGED << now, sweptAt, http, udp, clients, pending_requests, nextId, webVars, c2f, f2c,
                    srvSig, srvBuf, srvJob, sigFailed, lastFrame, cliSigFailed, cliSig, cliBuf,
                    cliReq, cliOut, cliSent, accepted, emitted, localCalls, wire, envLeft >>

\* connect_to_server: open_connection, connected = True, and
\* register_with_server, which writes the registration frame in one write.
connect_to_server ==
    /\ cliPhase = "init"
    /\ tconn[CliConn] = "idle"
    /\ tconn' = [tconn EXCEPT ![CliConn] = "open"]
    /\ srvPhase' = [srvPhase EXCEPT ![CliConn] = "len"]
    /\ connected' = TRUE
    /\ c2f' = [c2f EXCEPT ![CliConn] = SignedMessage(SecretKey, RegisterPayload(ClientId))]
    /\ wire' = wire \cup { SignedMessage(SecretKey, RegisterPayload(ClientId)) }
    /\ cliPhase' = "len"
    /\ UNCHANGED << now, sweptAt, http, udp, clients, pending_requests, nextId, webVars, f2c, srvSig,
                    srvBuf, srvJob, sigFailed, lastFrame, cliSigFailed, cliSig, cliBuf, cliReq,
                    cliOut, cliSent, accepted, emitted, localCalls, envLeft >>

\* A variant in which the read loop swallows the end of the stream and
\* reads again.
receive_messages_eof_ignored ==
    /\ connected' = connected
    /\ cliPhase' = "len"
    /\ cliSig' = NoSig
    /\ cliBuf' = <<>>

\* except asyncio.IncompleteReadError: self.connected = False
receive_messages_eof ==
    /\ connected' = FALSE
    /\ cliPhase' = "stopped"
    /\ cliSig' = NoSig
    /\ cliBuf' = <<>>

\* length_data = await self.reader.readexactly(4)
cli_read_len ==
    /\ cliPhase = "len"
    /\ connected
    /\ IF cli_at_eof
       THEN /\ receive_messages_eof
            /\ UNCHANGED f2c
       ELSE /\ f2c[CliConn] # <<>>
            /\ f2c' = [f2c EXCEPT ![CliConn] = Tail(f2c[CliConn])]
            /\ cliPhase' = "sig"
            /\ UNCHANGED << connected, cliSig, cliBuf >>
    /\ UNCHANGED << now, sweptAt, http, udp, clients, pending_requests, nextId, webVars, tconn, c2f,
                    srvVars, cliSigFailed, cliReq, cliOut, cliSent, accepted, emitted,
                    localCalls, wire,
                    envLeft >>

\* signature_data = await self.reader.readexactly(signature_length)
cli_read_sig ==
    /\ cliPhase = "sig"
    /\ IF cli_at_eof
       THEN /\ receive_messages_eof
            /\ UNCHANGED f2c
       ELSE /\ f2c[CliConn] # <<>>
            /\ f2c' = [f2c EXCEPT ![CliConn] = Tail(f2c[CliConn])]
            /\ cliSig' = Head(f2c[CliConn]).s
            /\ cliBuf' = <<>>
            /\ cliPhase' = "payload"
            /\ UNCHANGED connected
    /\ UNCHANGED << now, sweptAt, http, udp, clients, pending_requests, nextId, webVars, tconn, c2f,
                    srvVars, cliSigFailed, cliReq, cliOut, cliSent, accepted, emitted,
                    localCalls, wire,
                    envLeft >>

\* From the end of the read loop to the next await: the signature check,
\* json.loads, and await self.handle_request(request_data), which runs to
\* the local call.
cli_process(signature, json_data) ==
    IF ~verify_signature(json_data, signature)
    THEN /\ cliSigFailed' = 1
         /\ cliPhase' = "len"
         /\ UNCHANGED << cliReq, accepted >>
    ELSE IF ~json_ok(json_data)
    THEN /\ cliPhase' = "len"
         /\ UNCHANGED << cliReq, accepted, cliSigFailed >>
    ELSE /\ cliReq' = json_loads(json_data)
         /\ accepted' = Append(accepted, json_loads(json_data).id)
         /\ cliPhase' = "local"
         /\ UNCHANGED cliSigFailed

\* chunk = await self.reader.read(8192) in the read loop
cli_read_payload ==
    /\ cliPhase = "payload"
    /\ \/ /\ cli_at_eof
          /\ cli_process(cliSig, cliBuf)
          /\ cliBuf' = <<>>
          /\ UNCHANGED f2c
       \/ \E n \in 1..Len(f2c[CliConn]) :
            LET buf == cliBuf \o SubSeq(f2c[CliConn], 1, n)
            IN  /\ f2c' = [f2c EXCEPT ![CliConn] =
                             SubSeq(f2c[CliConn], n + 1, Len(f2c[CliConn]))]
                /\ IF json_ok(buf)
                   THEN /\ cli_process(cliSig, buf)
                        /\ cliBuf' = <<>>
                   ELSE /\ cliBuf' = buf
                        /\ UNCHANGED << cliPhase, cliReq, accepted, cliSigFailed >>
    /\ UNCHANGED << now, sweptAt, http, udp, clients, pending_requests, nextId, webVars, tconn, c2f,
                    srvVars, connected, cliSig, cliOut, cliSent, emitted, localCalls, wire,
                    envLeft >>

\* What the local service does with a call: it answers with an empty body,
\* answers with a body, or the call fails (unreachable, timeout).
LocalOutcomes == {"empty", "body", "fail"}

\* A variant of response_text that does not tell a failed call from an
\* answered one.
response_text_unchecked(request_data, outcome) ==
    IF outcome = "empty" THEN <<200>> ELSE <<200>> \o request_data.data

\* forward_request_to_local_api: the 'data' of the response dict.  The body
\* of the local answer stands for the request it answers.
response_text(request_data, outcome) ==
    CASE outcome = "empty" -> <<200>>
      [] outcome = "body"  -> <<200>> \o request_data.data
      [] OTHER             -> <<500, 0>>

\* A variant in which a failed local call is not turned into a 500 response:
\* the exception reaches handle_request, which prints it and returns.
cli_local_raises(outcome) ==
    /\ cliPhase = "local"
    /\ localCalls' = Append(localCalls, [id |-> cliReq.id, outcome |-> outcome])
    /\ IF outcome = "fail"
       THEN /\ cliPhase' = "len"
            /\ UNCHANGED << c2f, cliOut, cliSent, emitted, wire >>
       ELSE LET message == SignedMessage(SecretKey,
                               ResponsePayload(cliReq.id, response_text(cliReq, outcome)))
                chunk == chunk_of(message, 0, MsgChunk)
            IN  /\ c2f' = cli_write(chunk)
                /\ cliOut' = message
                /\ cliSent' = Len(chunk)
                /\ emitted' = IF Len(chunk) = Len(message)
                              THEN Append(emitted, MessageId(message)) ELSE emitted
                /\ wire' = IF Len(chunk) = Len(message) THEN wire \cup {message} ELSE wire
                /\ cliPhase' = "send"
    /\ UNCHANGED << now, sweptAt, http, udp, clients, pending_requests, nextId, webVars, tconn, f2c,
                    srvVars, cliSigFailed, connected, cliSig, cliBuf, cliReq, accepted, envLeft >>

\* A variant in which the read loop does not await the writing of the
\* response: after the first chunk the client is back in readexactly(4).
cli_local_detached(outcome) ==
    /\ cliPhase = "local"
    /\ LET response_data == ResponsePayload(cliReq.id, response_text(cliReq, outcome))
           message == SignedMessage(SecretKey, response_data)
           chunk == chunk_of(message, 0, MsgChunk)
       IN  /\ c2f' = cli_write(chunk)
           /\ emitted' = IF Len(chunk) = Len(message)
                         THEN Append(emitted, MessageId(message)) ELSE emitted
           /\ wire' = IF Len(chunk) = Len(message) THEN wire \cup {message} ELSE wire
    /\ localCalls' = Append(localCalls, [id |-> cliReq.id, outcome |-> outcome])
    /\ cliPhase' = "len"
    /\ UNCHANGED << now, sweptAt, http, udp, clients, pending_requests, nextId, webVars, tconn, f2c,
                    srvVars, cliSigFailed, connected, cliSig, cliBuf, cliReq, cliOut, cliSent,
                    accepted, envLeft >>

\* forward_request_to_local_api returns and send_response_to_server builds
\* the message and writes its first chunk.
cli_local(outcome) ==
    /\ cliPhase = "local"
    /\ LET response_data == ResponsePayload(cliReq.id, response_text(cliReq, outcome))
           message == SignedMessage(SecretKey, response_data)
           chunk == chunk_of(message, 0, MsgChunk)
       IN  /\ c2f' = cli_write(chunk)
           /\ cliOut' = message
           /\ cliSent' = Len(chunk)
           /\ emitted' = IF Len(chunk) = Len(message)
                         THEN Append(emitted, MessageId(message)) ELSE emitted
           /\ wire' = IF Len(chunk) = Len(message) THEN wire \cup {message} ELSE wire
    /\ localCalls' = Append(localCalls, [id |-> cliReq.id, outcome |-> outcome])
    /\ cliPhase' = "send"
    /\ UNCHANGED << now, sweptAt, http, udp, clients, pending_requests, nextId, webVars, tconn, f2c,
                    srvVars, cliSigFailed, connected, cliSig, cliBuf, cliReq, accepted, envLeft >>

\* await self.writer.drain() returns: the next chunk is written, or, when
\* the whole message is written, handle_request returns to the read loop.
cli_drain_ok ==
    /\ cliPhase = "send"
    /\ IF cliSent < Len(cliOut)
       THEN LET chunk == chunk_of(cliOut, cliSent, MsgChunk)
                done == cliSent + Len(chunk) = Len(cliOut)
            IN  /\ c2f' = cli_write(chunk)
                /\ cliSent' = cliSent + Len(chunk)
                /\ emitted' = IF done THEN Append(emitted, MessageId(cliOut)) ELSE emitted
                /\ wire' = IF done THEN wire \cup {cliOut} ELSE wire
                /\ UNCHANGED << cliPhase, cliOut >>
       ELSE /\ cliPhase' = "len"
            /\ cliOut' = <<>>
            /\ cliSent' = 0
            /\ UNCHANGED << c2f, emitted, wire >>
    /\ UNCHANGED << now, sweptAt, http, udp, clients, pending_requests, nextId, webVars, tconn, f2c,
                    srvVars, cliSigFailed, connected, cliSig, cliBuf, cliReq, accepted,
                    localCalls, envLeft >>

\* await self.writer.drain() raises: send_response_to_server prints the
\* exception and handle_request returns to the read loop.  drain raises
\* once the transport has reported the loss of the connection, and the
\* same report sets the exception on self.reader: what the reader had
\* buffered is never returned, the next readexactly raises.
cli_drain_fail ==
    /\ cliPhase = "send"
    /\ tconn[CliConn] = "lost" \/ srvPhase[CliConn] = "closed"
    /\ cliOut' = <<>>
    /\ cliSent' = 0
    /\ cliPhase' = "len"
    /\ f2c' = [f2c EXCEPT ![CliConn] = <<>>]
    /\ UNCHANGED << now, sweptAt, http, udp, clients, pending_requests, nextId, webVars, tconn, c2f,
                    srvVars, cliSigFailed, connected, cliSig, cliBuf, cliReq, accepted, emitted,
                    localCalls, wire, envLeft >>

(***************************************************************************)
(* The network and a rogue peer on tunnel connection RogueConn.  The rogue *)
(* does not know the secret: it signs with another key, or sends again     *)
(* (altered or not) a frame it saw on the client's connection.             *)
(***************************************************************************)
\* A tunnel connection is lost: what was in flight arrives in part or not at all.
tunnel_lost(t) ==
    /\ tconn[t] = "open"
    /\ envLeft > 0
    /\ envLeft' = envLeft - 1
    /\ tconn' = [tconn EXCEPT ![t] = "lost"]
    /\ \E a \in Prefixes(c2f[t]), b \in Prefixes(f2c[t]) :
         /\ c2f' = [c2f EXCEPT ![t] = a]
         /\ f2c' = [f2c EXCEPT ![t] = b]
    /\ UNCHANGED << now, sweptAt, http, udp, clients, pending_requests, nextId, webVars, srvVars,
                    cliVars, wire >>

\* One token with some of its bytes altered.
Altered(tok) ==
    CASE tok.k = "head" -> { [tok EXCEPT !.id = x] : x \in (1..NConns) \ {tok.id} }
                               \cup { [k |-> "garbled"] }
      [] tok.k = "tail" -> { [tok EXCEPT !.data = <<200>>] } \ {tok}
      [] tok.k = "sig"  -> { [tok EXCEPT !.s = create_signature(WrongKey, tok.s.over)] }
      [] OTHER          -> {}

AlteredMessages(m) ==
    { [m EXCEPT ![i] = x] : <<i, x>> \in UNION { {i} \X Altered(m[i]) : i \in DOMAIN m } }

\* Bytes of a frame in flight on the client's connection are altered.
net_tamper ==
    /\ envLeft > 0
    /\ envLeft' = envLeft - 1
    /\ \/ \E i \in DOMAIN f2c[CliConn] : \E x \in Altered(f2c[CliConn][i]) :
            /\ f2c' = [f2c EXCEPT ![CliConn][i] = x]
            /\ UNCHANGED c2f
       \/ \E i \in DOMAIN c2f[CliConn] : \E x \in Altered(c2f[CliConn][i]) :
            /\ c2f' = [c2f EXCEPT ![CliConn][i] = x]
            /\ UNCHANGED f2c
    /\ UNCHANGED << now, sweptAt, http, udp, clients, pending_requests, nextId, webVars, tconn, srvVars,
                    cliVars, wire >>

ForgedPayloads ==
    { RegisterPayload(RogueId) } \cup { ResponsePayload(r, <<>>) : r \in 1..nextId }

RogueMessages ==
    { SignedMessage(WrongKey, p) : p \in ForgedPayloads }
    \cup wire
    \cup UNION { AlteredMessages(m) : m \in wire }

\* The rogue peer connects, if it has not yet, and writes one frame.
rogue_send ==
    /\ tconn[RogueConn] # "lost"
    /\ srvPhase[RogueConn] # "closed"
    /\ envLeft > 0
    /\ envLeft' = envLeft - 1
    /\ tconn' = [tconn EXCEPT ![RogueConn] = "open"]
    /\ srvPhase' = [srvPhase EXCEPT ![RogueConn] =
                      IF srvPhase[RogueConn] = "none" THEN "len" ELSE srvPhase[RogueConn]]
    /\ \E m \in RogueMessages : c2f' = [c2f EXCEPT ![RogueConn] = c2f[RogueConn] \o m]
    /\ UNCHANGED << now, sweptAt, http, udp, clients, pending_requests, nextId, webVars, f2c, srvSig,
                    srvBuf, srvJob, sigFailed, lastFrame, cliVars, wire >>

(***************************************************************************)
(* The system.                                                             *)
(***************************************************************************)
Next ==
    \/ \E c \in Conns : handle_web_request(c)
    \/ \E c \in Conns : forward_drain_ok(c)
    \/ \E c \in Conns : forward_drain_fail(c)
    \/ \E t \in TConns : srv_read_len(t)
    \/ \E t \in TConns : srv_read_sig(t)
    \/ \E t \in TConns : srv_read_payload(t)
    \/ \E t \in TConns : srv_drain_ok(t)
    \/ \E t \in TConns : srv_drain_fail(t)
    \/ cleanup_inactive_clients
    \/ Tick
    \/ connect_to_server
    \/ cli_read_len
    \/ cli_read_sig
    \/ cli_read_payload
    \/ \E o \in LocalOutcomes : cli_local(o)
    \/ cli_drain_ok
    \/ cli_drain_fail
    \/ \E t \in TConns : tunnel_lost(t)
    \/ net_tamper
    \/ rogue_send

Spec == Init /\ [][Next]_vars

(***************************************************************************)
(* Undisturbed operation: the client's tunnel connection stays open, no    *)
(* frame is altered, no other peer connects, the public peers stay, the    *)
(* local service answers every call, and public requests arrive once the   *)
(* client is registered.  Every task that can run eventually runs.         *)
(***************************************************************************)
web_request_arrives(c) == clients # <<>> /\ handle_web_request(c)

local_service_answers == cli_local("empty") \/ cli_local("body")

NextLive ==
    \/ \E c \in Conns : web_request_arrives(c)
    \/ \E c \in Conns : forward_drain_ok(c)
    \/ srv_read_len(CliConn)
    \/ srv_read_sig(CliConn)
    \/ srv_read_payload(CliConn)
    \/ srv_drain_ok(CliConn)
    \/ connect_to_server
    \/ cli_read_len
    \/ cli_read_sig
    \/ cli_read_payload
    \/ local_service_answers
    \/ cli_drain_ok

LiveSpec ==
    /\ Init
    /\ [][NextLive]_vars
    /\ \A c \in Conns : WF_vars(web_request_arrives(c))
    /\ \A c \in Conns : WF_vars(forward_drain_ok(c))
    /\ WF_vars(srv_read_len(CliConn))
    /\ WF_vars(srv_read_sig(CliConn))
    /\ WF_vars(srv_read_payload(CliConn))
    /\ WF_vars(srv_drain_ok(CliConn))
    /\ WF_vars(connect_to_server)
    /\ WF_vars(cli_read_len)
    /\ WF_vars(cli_read_sig)
    /\ WF_vars(cli_read_payload)
    /\ WF_vars(local_service_answers)
    /\ WF_vars(cli_drain_ok)

(***************************************************************************)
(* Properties.                                                             *)
(***************************************************************************)
RelayedTo(c) == { i \in DOMAIN webOut[c] : webOut[c][i].kind = "relay" }

\* C1: bytes taken from a response frame that carries request_id r are
\* written only to the public connection whose request F tagged with r.
C1_ResponseToOwnConnection ==
    \A c \in Conns : \A i \in RelayedTo(c) : webOut[c][i].rid = webRid[c]

\* Two requests are pending together, the response to one is then written
\* out while the other still waits.
C1_Witness ==
    \E t \in TConns, c \in Conns :
        /\ srvPhase[t] = "deliver"
        /\ srvJob[t].web # c
        /\ RelayedTo(srvJob[t].web) # {}
        /\ webPc[c] = "held"
        /\ pending_has(pending_requests, webRid[c])
\* C2: with the public requests arriving while the client is registered, its
\* tunnel connection open and the local service answering, every public
\* connection eventually has its response written in full and is closed.
Delivered(c) ==
    /\ webClosed[c]
    /\ RelayedTo(c) # {}
    /\ LET last == webOut[c][Len(webOut[c])]
       IN  last.off + Len(last.b) = last.total

C2_AllDelivered == <>(\A c \in Conns : Delivered(c))

IsPrefix(a, b) == Len(a) <= Len(b) /\ SubSeq(b, 1, Len(a)) = a

Count(seq, x) == Cardinality({ i \in DOMAIN seq : seq[i] = x })

ClientLinkUp == tconn[CliConn] = "open" /\ srvPhase[CliConn] # "closed"

\* C3: the client never writes more response frames with an id than it
\* accepted request frames with that id; and while the tunnel connection is
\* up, the response frames written in full carry, in order, the ids of the
\* accepted request frames, one each, the only accepted request without its
\* response frame being the one the client is still working on.
C3_OneResponsePerAcceptedRequest ==
    /\ \A r \in 1..NConns : Count(emitted, r) <= Count(accepted, r)
    /\ ClientLinkUp =>
          /\ IsPrefix(emitted, accepted)
          /\ Len(accepted) - Len(emitted) <= 1
          /\ cliPhase \notin {"local", "send"} => emitted = accepted
          /\ (cliPhase = "send" /\ cliSent = Len(cliOut)) => emitted = accepted

C3_Witness ==
    /\ ClientLinkUp
    /\ cliPhase = "len"
    /\ Len(accepted) = 2
    /\ emitted = accepted
    /\ \E m \in wire : json_loads(PayloadOf(m)).type = "response"
                        /\ json_loads(PayloadOf(m)).data[1] = 500

(***************************************************************************)
(* A step that ends the reading of a frame, and the payload bytes the      *)
(* receiver then holds: its buffer and the chunk taken in this step.       *)
(***************************************************************************)
SrvFrameEnd(t) == srvPhase[t] = "payload" /\ srvPhase'[t] # "payload"
SrvFinalBuf(t) == srvBuf[t] \o SubSeq(c2f[t], 1, Len(c2f[t]) - Len(c2f'[t]))
CliFrameEnd == cliPhase = "payload" /\ cliPhase' # "payload"
CliFinalBuf == cliBuf \o SubSeq(f2c[CliConn], 1, Len(f2c[CliConn]) - Len(f2c'[CliConn]))

SrvNoEffect(t) ==
    /\ UNCHANGED << clients, pending_requests, webOut, webClosed >>
    /\ srvPhase'[t] = "len"
CliNoEffect ==
    /\ UNCHANGED << accepted, localCalls, emitted, c2f, cliReq, cliOut >>
    /\ cliPhase' = "len"

\* C4: a frame whose signature is not the HMAC of the received payload under
\* the shared secret changes nothing at the receiver: F leaves the registry,
\* the pending table and every public connection as they were, the client
\* makes no local call and writes no response; both go on to the next frame.
C4_BadSignatureNoEffect ==
    [][ /\ \A t \in TConns :
             (SrvFrameEnd(t) /\ srvSig[t] # create_signature(SecretKey, SrvFinalBuf(t)))
                 => SrvNoEffect(t)
        /\ (CliFrameEnd /\ cliSig # create_signature(SecretKey, CliFinalBuf))
                 => CliNoEffect ]_vars

\* F has rejected a frame on the client's open connection (a signed frame
\* altered in transit) while a registration from it is on record.
C4_Witness ==
    /\ sigFailed[CliConn] = 1
    /\ tconn[CliConn] = "open"
    /\ envLeft < MaxEnv
    /\ HasClient(clients, ClientId)

\* The payloads of the frames written in full to F by the holder of the
\* secret, and of the frames F wrote to the client.
PayloadsWrittenToF == { PayloadOf(m) : m \in wire }
PayloadsWrittenToC ==
    { json_dumps(RequestPayload(webRid[c], <<c>>)) : c \in { x \in Conns : webWriter[x] # 0 } }

\* C5: a peer acts on a frame only when the payload it holds at the end of
\* the read is, whole and unchanged, the payload its sender wrote; a frame
\* cut short by end-of-stream (or run together with what follows it) has no
\* effect at F and none at the client.
C5_OnlyCompleteFramesActedUpon ==
    [][ /\ \A t \in TConns :
             (SrvFrameEnd(t) /\ SrvFinalBuf(t) \notin PayloadsWrittenToF)
                 => SrvNoEffect(t)
        /\ (CliFrameEnd /\ CliFinalBuf \notin PayloadsWrittenToC)
                 => CliNoEffect ]_vars

\* The client's connection was lost with a frame partly delivered, and F
\* has met end-of-stream inside that frame and rejected what it held.
C5_Witness ==
    /\ tconn[CliConn] = "lost"
    /\ envLeft = MaxEnv - 1
    /\ sigFailed[CliConn] = 1
    /\ c2f[CliConn] = <<>>

RegisteredIds(cl) == { cl[i].id : i \in DOMAIN cl }
HasWriter(cl, t) == \E i \in DOMAIN cl : cl[i].writer = t

\* A step of F that ends the reading of a frame which parses and whose
\* signature verifies, and the object it carries.
SrvValidFrame(t) ==
    /\ SrvFrameEnd(t)
    /\ json_ok(SrvFinalBuf(t))
    /\ srvSig[t] = create_signature(SecretKey, SrvFinalBuf(t))
SrvFrameObject(t) == json_loads(SrvFinalBuf(t))

\* C6: when F has read a frame that is well-formed JSON and whose signature
\* does not verify, it closes that tunnel connection, and no registry entry
\* comes from the frame.
C6_BadSignatureClosesConnection ==
    [][ \A t \in TConns :
          ( /\ SrvFrameEnd(t)
            /\ json_ok(SrvFinalBuf(t))
            /\ srvSig[t] # create_signature(SecretKey, SrvFinalBuf(t)) )
          => ( /\ srvPhase'[t] = "closed"
               /\ RegisteredIds(clients') \subseteq RegisteredIds(clients) ) ]_vars

\* C7: a validly signed response frame read on a tunnel connection that no
\* client record names as its writer leaves the pending table and every
\* public connection as they were.
C7_UnregisteredResponseDropped ==
    [][ \A t \in TConns :
          ( /\ SrvValidFrame(t)
            /\ SrvFrameObject(t).type = "response"
            /\ ~HasWriter(clients, t) )
          => UNCHANGED << pending_requests, webOut, webClosed >> ]_vars

\* C8: a validly signed response frame whose request_id is not in the
\* pending table leaves the pending table as it was, writes to no public
\* connection and closes none.
C8_UnknownResponseDropped ==
    [][ \A t \in TConns :
          ( /\ SrvValidFrame(t)
            /\ SrvFrameObject(t).type = "response"
            /\ ~pending_has(pending_requests, CarriedId(SrvFrameObject(t))) )
          => ( /\ UNCHANGED << pending_requests, webOut, webClosed >>
               /\ srvPhase'[t] = "len" ) ]_vars

\* F has read to its end the response frame for a request whose pending
\* record was not yet written; the frame was dropped and the request is
\* still unanswered.
C8_Witness ==
    \E c \in Conns :
        /\ webPc[c] = "drain"
        /\ \E i \in DOMAIN emitted : emitted[i] = webRid[c]
        /\ cliPhase = "len"
        /\ c2f[CliConn] = <<>>
        /\ srvPhase[CliConn] = "len"
        /\ sigFailed[CliConn] = 0
        /\ tconn[CliConn] = "open"
        /\ webOut[c] = <<>>
        /\ ~webClosed[c]

\* The responses begun on a public connection: the writes at offset 0.
ResponsesBegun(c) == { i \in DOMAIN webOut[c] : webOut[c][i].off = 0 }

\* C9: no public connection has a second response begun on it; a locally
\* generated 5xx is followed at once by the close; and nothing is written
\* to a public connection after it was closed, nor is it opened again.
C9_AtMostOneResponse ==
    /\ [](\A c \in Conns :
            /\ Cardinality(ResponsesBegun(c)) <= 1
            /\ (\E i \in DOMAIN webOut[c] : webOut[c][i].kind = "local") => webClosed[c])
    /\ [][ \A c \in Conns :
              webClosed[c] => (webOut'[c] = webOut[c] /\ webClosed'[c]) ]_vars

\* One public connection got the 500 of a failed tunnel write, the other a
\* relayed response; both are closed.
C9_Witness ==
    \E c, d \in Conns :
        /\ webClosed[c] /\ webOut[c] = << ErrorItem(500) >>
        /\ webClosed[d] /\ RelayedTo(d) # {}

Forwarded(c) == webWriter[c] # 0

\* What was written to c is a response from its first byte to its last.
WrittenInFull(c) ==
    /\ webOut[c] # <<>>
    /\ LET last == webOut[c][Len(webOut[c])]
       IN  last.off + Len(last.b) = last.total

\* What was written to c is one response from its first byte on, in order.
WrittenInOrder(c) ==
    \A i \in DOMAIN webOut[c] :
        /\ webOut[c][i].off = (IF i = 1 THEN 0
                               ELSE webOut[c][i-1].off + Len(webOut[c][i-1].b))
        /\ webOut[c][i].rid = webOut[c][1].rid

\* C10, as stated: a forwarded request's public connection, once closed by
\* F, holds the complete response or nothing.
C10_FullOrNothing ==
    \A c \in Conns :
        (Forwarded(c) /\ webClosed[c]) => (webOut[c] = <<>> \/ WrittenInFull(c))

\* C10, amended: a forwarded request's public connection, once closed by F,
\* holds the complete response or nothing, unless a write to that public
\* connection failed; then it holds the part of the response written before
\* the failure.
C10_FullOrNothingUnlessWriteFailed ==
    \A c \in Conns :
        (Forwarded(c) /\ webClosed[c]) =>
            /\ WrittenInOrder(c)
            /\ ~webFailed[c] => (webOut[c] = <<>> \/ WrittenInFull(c))

\* A response of more than one chunk was relayed in full and the connection
\* closed, no write having failed.
C10_Witness ==
    \E c \in Conns :
        /\ Forwarded(c) /\ webClosed[c] /\ ~webFailed[c]
        /\ Len(webOut[c]) = 2
        /\ WrittenInFull(c)

(***************************************************************************)
(* Operation in which the client's tunnel connection may be lost: the      *)
(* tasks of both programs run fairly, frames are not altered and no other  *)
(* peer connects, but the connection can break at any moment, with what    *)
(* was in flight delivered in part.                                        *)
(***************************************************************************)
connection_lost == tunnel_lost(CliConn)

NextLoss ==
    \/ NextLive
    \/ connection_lost
    \/ \E c \in Conns : forward_drain_fail(c)
    \/ cli_drain_fail

LossSpec ==
    /\ Init
    /\ [][NextLoss]_vars
    /\ \A c \in Conns : WF_vars(web_request_arrives(c))
    /\ \A c \in Conns : WF_vars(forward_drain_ok(c))
    /\ \A c \in Conns : WF_vars(forward_drain_fail(c))
    /\ WF_vars(srv_read_len(CliConn))
    /\ WF_vars(srv_read_sig(CliConn))
    /\ WF_vars(srv_read_payload(CliConn))
    /\ WF_vars(srv_drain_ok(CliConn))
    /\ WF_vars(connect_to_server)
    /\ WF_vars(cli_read_len)
    /\ WF_vars(cli_read_sig)
    /\ WF_vars(cli_read_payload)
    /\ WF_vars(local_service_answers)
    /\ WF_vars(cli_drain_ok)
    /\ WF_vars(cli_drain_fail)

\* C11: every pending record is eventually removed from the pending table,
\* whether or not its response frame arrives.
C11_PendingEventuallyRemoved ==
    \A r \in 1..NConns :
        pending_has(pending_requests, r) ~> ~pending_has(pending_requests, r)

\* C12: when F ends a tunnel connection, every pending record of a request
\* it forwarded over that connection is removed and the request's public
\* connection is closed.
C12_ConnectionEndCancelsPending ==
    [][ \A t \in TConns :
          (srvPhase[t] # "closed" /\ srvPhase'[t] = "closed") =>
              \A c \in Conns :
                  (webWriter[c] = t /\ pending_has(pending_requests, webRid[c])) =>
                      /\ ~pending_has(pending_requests', webRid[c])
                      /\ webClosed'[c] ]_vars

\* C13: when the write of a request frame to the selected client's writer
\* fails, F writes a 500 to the public connection, closes it, keeps no
\* pending record for the request, and no client record with that writer
\* is left in the registry.
C13_TunnelWriteFailureEvicts ==
    [][ \A c \in Conns :
          (webPc[c] = "drain" /\ webPc'[c] = "done") =>
              /\ webOut'[c] = << ErrorItem(500) >>
              /\ webClosed'[c]
              /\ ~pending_has(pending_requests', webRid[c])
              /\ ~HasWriter(clients', webWriter[c]) ]_vars

\* C14: a public request handled while the registry is empty gets a 503
\* and its connection is closed in the same step; no frame is written to
\* any tunnel connection and no pending record is created.
C14_EmptyRegistry503 ==
    [][ \A c \in Conns :
          (webPc[c] = "new" /\ webPc'[c] # "new" /\ clients = <<>>) =>
              /\ Len(webOut'[c]) = 1
              /\ webOut'[c][1].kind = "local"
              /\ webOut'[c][1].b = <<503>>
              /\ webClosed'[c]
              /\ UNCHANGED << f2c, pending_requests >> ]_vars

\* A public connection was answered 503 and closed, nothing was forwarded
\* for it, and the pending table and the tunnel are empty.
C14_Witness ==
    \E c \in Conns :
        /\ webPc[c] = "done"
        /\ webClosed[c]
        /\ Len(webOut[c]) = 1
        /\ webOut[c][1].b = <<503>>
        /\ webWriter[c] = 0
        /\ pending_requests = << >>
        /\ \A t \in TConns : f2c[t] = <<>>

(***************************************************************************)
(* The place of a token in its frame (length, signature, the two parts of  *)
(* the payload), and the place at which each reader expects the next       *)
(* unread token of its stream to be.                                       *)
(***************************************************************************)
KindIx(tok) ==
    CASE tok.k = "len"  -> 0
      [] tok.k = "sig"  -> 1
      [] tok.k = "tail" -> 3
      [] OTHER          -> 2

SrvNextIx(t) ==
    CASE srvPhase[t] = "sig"     -> 1
      [] srvPhase[t] = "payload" -> (2 + Len(srvBuf[t])) % 4
      [] OTHER                   -> 0

CliNextIx(t) ==
    IF t # CliConn THEN 0
    ELSE CASE cliPhase = "sig"     -> 1
           [] cliPhase = "payload" -> (2 + Len(cliBuf)) % 4
           [] OTHER                -> 0

\* The tokens of seq follow one another as the tokens of whole frames do,
\* the first of them being at place start of its frame.
InFrameOrder(seq, start) ==
    \A i \in DOMAIN seq : KindIx(seq[i]) = (start + i - 1) % 4

\* Every signature in seq that has its whole payload behind it is the
\* signature written with that payload.
OwnPayloads(seq) ==
    \A i \in DOMAIN seq :
        (seq[i].k = "sig" /\ i + 2 <= Len(seq)) =>
            seq[i].s.over = << seq[i + 1], seq[i + 2] >>

\* C15: in each direction of each tunnel connection the unread bytes are
\* those of whole frames one after another (the first and the last possibly
\* in part): no frame has bytes of another frame between its own; and as
\* long as the network has altered nothing, each signature is followed by
\* the payload it was written with.
C15_FramesContiguous ==
    \A t \in TConns :
        /\ InFrameOrder(c2f[t], SrvNextIx(t))
        /\ InFrameOrder(f2c[t], CliNextIx(t))
        /\ envLeft = MaxEnv => (OwnPayloads(c2f[t]) /\ OwnPayloads(f2c[t]))

\* The client is between two chunks of a response frame, the first chunk
\* unread at F, while a public-request handler has just written a further
\* request frame to the client and awaits its drain.
C15_Witness ==
    /\ cliPhase = "send"
    /\ cliSent = MsgChunk
    /\ cliSent < Len(cliOut)
    /\ Len(c2f[CliConn]) = MsgChunk
    /\ \E c \in Conns : webPc[c] = "drain" /\ webWriter[c] = CliConn
    /\ Len(f2c[CliConn]) = 4

(***************************************************************************)
(* Undisturbed operation with a local service that may take any time to    *)
(* answer a call: as LiveSpec, but nothing says when a local call returns. *)
(***************************************************************************)
SlowLocalSpec ==
    /\ Init
    /\ [][NextLive]_vars
    /\ \A c \in Conns : WF_vars(web_request_arrives(c))
    /\ \A c \in Conns : WF_vars(forward_drain_ok(c))
    /\ WF_vars(srv_read_len(CliConn))
    /\ WF_vars(srv_read_sig(CliConn))
    /\ WF_vars(srv_read_payload(CliConn))
    /\ WF_vars(srv_drain_ok(CliConn))
    /\ WF_vars(connect_to_server)
    /\ WF_vars(cli_read_len)
    /\ WF_vars(cli_read_sig)
    /\ WF_vars(cli_read_payload)
    /\ WF_vars(cli_drain_ok)

UniqueIds(cl) == \A i, j \in DOMAIN cl : cl[i].id = cl[j].id => i = j

\* C17: no two client records have the same client_id; a registration frame
\* read on connection t leaves exactly one record for its id, holding t as
\* writer and the current time as last_seen, and adds no other id; and a
\* request frame is written to the writer held by a record, to that
\* connection only.
C17_ReRegistrationReplaces ==
    /\ [] UniqueIds(clients)
    /\ [][ /\ \A t \in TConns :
                (SrvValidFrame(t) /\ SrvFrameObject(t).type = "register") =>
                    /\ \E i \in DOMAIN clients' :
                         clients'[i] = [id |-> SrvFrameObject(t).id,
                                        writer |-> t, last_seen |-> now]
                    /\ RegisteredIds(clients') =
                         RegisteredIds(clients) \cup { SrvFrameObject(t).id }
           /\ \A c \in Conns :
                (webPc[c] = "new" /\ webPc'[c] = "drain") =>
                    /\ HasWriter(clients, webWriter'[c])
                    /\ \A t \in TConns : t # webWriter'[c] => f2c'[t] = f2c[t] ]_vars

\* The client's id was registered again from the other connection while the
\* first connection is still open: the one record holds the new writer, and
\* a request frame has been written to the new connection.
C17_Witness ==
    /\ clients = << [id |-> ClientId, writer |-> RogueConn, last_seen |-> now] >>
    /\ tconn[CliConn] = "open"
    /\ srvPhase[CliConn] = "len"
    /\ c2f[CliConn] = <<>>
    /\ sigFailed[CliConn] = 0
    /\ \E c \in Conns : webWriter[c] = RogueConn
    /\ Len(f2c[RogueConn]) = 4
    /\ f2c[CliConn] = <<>>

\* C18: the clock never goes back, and in every step each client record
\* that exists before and after the step has a last_seen at least as large
\* after it as before.
C18_LastSeenMonotone ==
    [][ /\ now' >= now
        /\ \A i \in DOMAIN clients : \A j \in DOMAIN clients' :
             clients[i].id = clients'[j].id =>
                 clients'[j].last_seen >= clients[i].last_seen ]_vars

\* Time has passed, the client's record carries the current time, and a
\* response frame read on its connection has been relayed.
C18_Witness ==
    /\ now = TickStep
    /\ clients = << [id |-> ClientId, writer |-> CliConn, last_seen |-> TickStep] >>
    /\ \E c \in Conns : RelayedTo(c) # {} /\ webClosed[c]

\* C19: no client record has a last_seen more than 300 s before the time of
\* the last run of the sweep: the sweep leaves none, and a record written
\* later carries a later time.
C19_SweepEvictsStale ==
    \A i \in DOMAIN clients : sweptAt - clients[i].last_seen <= InactiveTimeout

\* The client registered, then sent nothing for more than 300 s; the sweep
\* has run and its record is gone, its connection being still open.
C19_Witness ==
    /\ sweptAt = TickStep
    /\ clients = <<>>
    /\ tconn[CliConn] = "open"
    /\ srvPhase[CliConn] = "len"
    /\ c2f[CliConn] = <<>>
    /\ sigFailed[CliConn] = 0

\* The response frame m carries request id rid and its data is a 500.
Is500For(m, rid) ==
    /\ MessageId(m) = rid
    /\ json_loads(PayloadOf(m)).data[1] = 500
    /\ m[2].s = create_signature(SecretKey, PayloadOf(m))

\* C20: for every call to the local service that failed (service not
\* reachable, or no answer within the timeout), the client is writing, or
\* has written in full, a response frame with that request's id whose data
\* is a 500 -- unless the tunnel connection is down; and it has written no
\* other response frame with that id.
C20_LocalFailureAnswered500 ==
    \A i \in DOMAIN localCalls :
        localCalls[i].outcome = "fail" =>
            /\ \/ i = Len(localCalls) /\ cliPhase = "send"
                                      /\ Is500For(cliOut, localCalls[i].id)
               \/ \E m \in wire : Is500For(m, localCalls[i].id)
               \/ ~ClientLinkUp
            /\ \A m \in wire :
                 (json_loads(PayloadOf(m)).type = "response"
                     /\ MessageId(m) = localCalls[i].id)
                 => Is500For(m, localCalls[i].id)

\* A local call failed, the 500 frame for its request was written in full
\* on the open connection, and F has relayed the 500 to the public peer.
C20_Witness ==
    /\ ClientLinkUp
    /\ \E i \in DOMAIN localCalls :
         /\ localCalls[i].outcome = "fail"
         /\ \E m \in wire : Is500For(m, localCalls[i].id)
         /\ \E c \in Conns : /\ webRid[c] = localCalls[i].id
                             /\ RelayedTo(c) # {}
                             /\ webOut[c][1].b = <<500>>

(***************************************************************************)
(* The HTTP text of one exchange.                                          *)
(*                                                                         *)
(* The tunnel model above carries a request and a response as opaque       *)
(* data.  Here one exchange is followed through the code that reads,       *)
(* decodes, parses and encodes its text: handle_web_request of F,          *)
(* forward_request_to_local_api of the client, and the write-out in        *)
(* handle_client of F.  A body is a sequence of bytes, a decoded body a    *)
(* sequence of code points; the header section is ASCII and is kept as a   *)
(* record of the parts the code looks at.                                  *)
(***************************************************************************)
MaxBody == 2         \* bytes in a request body and in a response body

\* 0x41 is 'A'; 0xC3 0xA9 is the UTF-8 of U+00E9; 0xC3 alone, 0xA9 alone and
\* 0xFF are not UTF-8.
Octets == {65, 195, 169, 255}
Bodies == UNION { [1..n -> Octets] : n \in 0..MaxBody }

Surrogate(b) == 56320 + b          \* U+DC80..U+DCFF stand for the bytes 0x80..0xFF
IsSurrogate(ch) == ch \in 56448..56575

RECURSIVE decode(_, _)
\* bytes.decode('utf-8', errors=errors), errors 'surrogateescape' or 'ignore'
decode(b, errors) ==
    IF b = <<>> THEN <<>>
    ELSE IF b[1] < 128
         THEN << b[1] >> \o decode(Tail(b), errors)
    ELSE IF /\ b[1] \in 194..223
            /\ Len(b) >= 2
            /\ b[2] \in 128..191
         THEN << (b[1] - 192) * 64 + (b[2] - 128) >>
              \o decode(SubSeq(b, 3, Len(b)), errors)
    ELSE IF errors = "surrogateescape"
         THEN << Surrogate(b[1]) >> \o decode(Tail(b), errors)
    ELSE decode(Tail(b), errors)

\* str.encode('utf-8', errors=errors) raises UnicodeEncodeError on a
\* surrogate unless errors is 'surrogateescape'.
encodable(s, errors) ==
    \/ errors = "surrogateescape"
    \/ \A i \in 1..Len(s) : ~IsSurrogate(s[i])

RECURSIVE encode(_, _)
\* str.encode('utf-8', errors=errors), where it does not raise
encode(s, errors) ==
    IF s = <<>> THEN <<>>
    ELSE IF s[1] < 128
         THEN << s[1] >> \o encode(Tail(s), errors)
    ELSE IF s[1] < 2048
         THEN << 192 + (s[1] \div 64), 128 + (s[1] % 64) >> \o encode(Tail(s), errors)
    ELSE IF IsSurrogate(s[1]) /\ errors = "surrogateescape"
         THEN << s[1] - 56320 >> \o encode(Tail(s), errors)
    ELSE encode(Tail(s), errors)

\* json.dumps writes a str in ASCII, a code point above 0x7F as \uXXXX;
\* json.loads reads the escapes back, a lone surrogate included.
json_escape(s) == [i \in 1..Len(s) |-> [u |-> s[i] >= 128, v |-> s[i]]]
json_unescape(j) == [i \in 1..Len(j) |-> j[i].v]

\* What a public client sends: the start line split at its spaces, the
\* headers the code looks at, whether a blank line ends the header
\* section, and the bytes after it.
StartLines == { <<"GET", "/p", "HTTP/1.1">>, <<"POST", "/p", "HTTP/1.1">>, <<"POST">> }
ContentTypes == {"multipart/form-data", "application/octet-stream"}
NoLength == 0 - 1                  \* no Content-Length header
PublicRequests ==
    { r \in [line : StartLines, ctype : ContentTypes, clen : {NoLength} \cup (0..MaxBody),
             chunked : BOOLEAN, blank : BOOLEAN, body : Bodies] :
        r.clen \in {NoLength, Len(r.body)} }

Statuses == {200, 404, 500}        \* response.status of the local service
LocalResponses == [status : Statuses, body : Bodies]

ErrorText == << 69 >>              \* the ASCII text of an error body, abridged

NoData == [none |-> "data"]
NoCall == [none |-> "call"]
NoResp == [none |-> "response"]
NoText == [none |-> "text"]
NoOut == [none |-> "out"]

tunnelVars == << now, sweptAt, clients, pending_requests, nextId, webVars, netVars,
                 srvVars, cliVars, wire, envLeft >>

HttpInit ==
    /\ http \in { [pc |-> "public", req |-> r, data |-> NoData, call |-> NoCall,
                   resp |-> NoResp, text |-> NoText, out |-> NoOut] :
                  r \in PublicRequests }
    /\ udp = NoUdp
    /\ envLeft = MaxEnv
    /\ InitTunnel

\* handle_web_request: readuntil the blank line, the Content-Length header,
\* readexactly the body, decode, and forward.  readuntil and readexactly
\* raise IncompleteReadError when the input ends early; the handler then
\* answers 500 and closes.  No other header and no part of the start line
\* is looked at.
read_web_request ==
    /\ http.pc = "public"
    /\ LET req == http.req
           content_length == IF req.clen = NoLength THEN 0 ELSE req.clen
           body_data == IF content_length > 0
                        THEN SubSeq(req.body, 1, content_length)
                        ELSE <<>>
       IN  IF ~req.blank \/ content_length > Len(req.body)
           THEN http' = [http EXCEPT !.pc = "done",
                                     !.out = [status |-> 500, body |-> ErrorText]]
           ELSE http' = [http EXCEPT
                           !.pc = "frame",
                           !.data = [line |-> req.line, ctype |-> req.ctype,
                                     clen |-> req.clen, chunked |-> req.chunked,
                                     blank |-> TRUE,
                                     body |-> json_escape(decode(body_data, "surrogateescape"))]]
    /\ UNCHANGED << tunnelVars, udp >>

\* forward_request_to_local_api, up to session.request: the method and the
\* body bytes passed to the local service, or the exception raised.
local_request(raw_request) ==
    LET body_part == json_unescape(raw_request.body)
    IN  IF ~raw_request.blank
        THEN [ok |-> FALSE, raised |-> "ValueError"]
        ELSE IF Len(raw_request.line) < 3
        THEN [ok |-> FALSE, raised |-> "ValueError"]
        ELSE IF raw_request.ctype = "multipart/form-data"
        THEN [ok |-> TRUE, method |-> raw_request.line[1],
              body |-> encode(body_part, "surrogateescape")]
        ELSE IF ~encodable(body_part, "strict")
        THEN [ok |-> FALSE, raised |-> "UnicodeEncodeError"]
        ELSE [ok |-> TRUE, method |-> raw_request.line[1],
              body |-> encode(body_part, "strict")]

\* The response text of the outer except of forward_request_to_local_api.
error_response ==
    [status |-> 500, by |-> "client", body |-> json_escape(ErrorText)]

\* A variant that answers for an error status of the local service as for
\* a call that raised.
local_response_text_raising(response) ==
    IF response.status >= 400
    THEN error_response
    ELSE [status |-> response.status, by |-> "local",
          body |-> json_escape(decode(response.body, "ignore"))]

\* The response text built from the local service's response: its status,
\* and its body decoded with errors='ignore'.
local_response_text(response) ==
    [status |-> response.status, by |-> "local",
     body |-> json_escape(decode(response.body, "ignore"))]

\* forward_request_to_local_api, from its start to the await of session.request
parse_request ==
    /\ http.pc = "frame"
    /\ LET r == local_request(http.data)
       IN  IF r.ok
           THEN http' = [http EXCEPT !.pc = "local",
                                     !.call = [method |-> r.method, body |-> r.body]]
           ELSE http' = [http EXCEPT !.pc = "reply", !.text = error_response]
    /\ UNCHANGED << tunnelVars, udp >>

\* The local service responds; forward_request_to_local_api returns.
local_responds(response) ==
    /\ http.pc = "local"
    /\ http' = [http EXCEPT !.pc = "reply", !.resp = response,
                            !.text = local_response_text(response)]
    /\ UNCHANGED << tunnelVars, udp >>

\* The call to the local service raises (refused, timed out).
local_unreachable ==
    /\ http.pc = "local"
    /\ http' = [http EXCEPT !.pc = "reply", !.text = error_response]
    /\ UNCHANGED << tunnelVars, udp >>

\* handle_client: response_data.get('data', '').encode('utf-8',
\* errors='surrogateescape'), written to the public connection.
relay_response ==
    /\ http.pc = "reply"
    /\ http' = [http EXCEPT
                  !.pc = "done",
                  !.out = [status |-> http.text.status,
                           body |-> encode(json_unescape(http.text.body),
                                           "surrogateescape")]]
    /\ UNCHANGED << tunnelVars, udp >>

HttpNext ==
    \/ read_web_request
    \/ parse_request
    \/ \E response \in LocalResponses : local_responds(response)
    \/ local_unreachable
    \/ relay_response

HttpSpec == HttpInit /\ [][HttpNext]_vars

(***************************************************************************)
(* Claims about the HTTP text.                                             *)
(***************************************************************************)
\* The request frame reached the client and the client has answered it.
ClientAnswered == http.pc \in {"reply", "done"} /\ http.data # NoData

\* C21: when the HTTP data of a request frame is malformed (no blank
\* line, or a start line of fewer than three parts), the response frame
\* the client emits has status 400.
C21_MalformedAnswered400 ==
    ( /\ ClientAnswered
      /\ ~http.data.blank \/ Len(http.data.line) < 3 )
    => http.text.status = 400

\* C22: when the local service responded, the response frame carries the
\* status of that response, an error status included; the client's own 500
\* text is used only when no response of the local service was obtained;
\* and F writes out the status the frame carries.
C22_LocalStatusCarried ==
    ClientAnswered
    => /\ http.resp # NoResp => /\ http.text.by = "local"
                                /\ http.text.status = http.resp.status
       /\ http.resp = NoResp => http.text = error_response
       /\ http.pc = "done" => http.out.status = http.text.status

C22_Witness ==
    /\ http.pc = "done"
    /\ http.resp # NoResp
    /\ http.resp.status = 404
    /\ http.out.status = 404

\* C23: a public request with Transfer-Encoding: chunked is answered 501 by
\* F and no request frame is made of it.
C23_ChunkedRejected501 ==
    ( /\ http.pc # "public"
      /\ http.req.blank
      /\ http.req.chunked )
    => /\ http.data = NoData
       /\ http.pc = "done"
       /\ http.out.status = 501

\* C24: a public request with a malformed start line, or one that is not a
\* GET and has a body but no Content-Length, is answered 400 by F and not
\* forwarded.
C24_MalformedRejected400 ==
    ( /\ http.pc # "public"
      /\ http.req.blank
      /\ \/ Len(http.req.line) < 3
         \/ /\ http.req.line[1] # "GET"
            /\ http.req.body # <<>>
            /\ http.req.clen = NoLength )
    => /\ http.data = NoData
       /\ http.pc = "done"
       /\ http.out.status = 400

\* A request F and the client can parse: three parts in the start line, a
\* blank line, a Content-Length that is the length of the body.
WellFormed(req) ==
    /\ req.blank
    /\ Len(req.line) = 3
    /\ req.clen = Len(req.body)
    /\ ~req.chunked

\* C25: once the client is past the parsing of a well-formed request with
\* body B, whatever the bytes of B and whatever the content type, it has
\* called the local service with exactly the bytes B as the body.
C25_RequestBodyExact ==
    ( /\ http.pc \in {"local", "reply", "done"}
      /\ WellFormed(http.req) )
    => /\ http.call # NoCall
       /\ http.call.body = http.req.body

\* C26: when the local service responded with body R, whatever the bytes of
\* R, the body F writes to the public connection is exactly R.
C26_ResponseBodyExact ==
    ( /\ http.pc = "done"
      /\ http.resp # NoResp )
    => http.out.body = http.resp.body

(***************************************************************************)
(* Claims about the pending table and the frame readers.                   *)
(***************************************************************************)
\* The request of c was written to the tunnel and nothing has been written
\* to c, nor was c closed.
Unanswered(c) == Forwarded(c) /\ webOut[c] = <<>> /\ ~webClosed[c]

\* C27: the pending record of a request is in the table from the moment
\* its request frame is written to the tunnel, so that a validly signed
\* response frame F has read for the id of a forwarded, unanswered request
\* finds the record.
C27_ResponseFindsPendingRecord ==
    [][ \A t \in TConns :
          ( /\ SrvValidFrame(t)
            /\ SrvFrameObject(t).type = "response"
            /\ \E c \in Conns : /\ webRid[c] = CarriedId(SrvFrameObject(t))
                                /\ Unanswered(c) )
          => pending_has(pending_requests, CarriedId(SrvFrameObject(t))) ]_vars

\* The bytes of a frame's payload: no length field and no signature.
PayloadBytesOnly(buf) == \A i \in DOMAIN buf : buf[i].k \notin {"len", "sig"}

\* C28: however the byte stream is split, and with two frames waiting
\* together, the payload reader of either peer takes no bytes of the frame
\* that follows.
C28_PayloadReaderStopsAtFrameEnd ==
    /\ PayloadBytesOnly(cliBuf)
    /\ \A t \in TConns : PayloadBytesOnly(srvBuf[t])

\* C29: a response frame whose request_id is pending has its record removed
\* in the step that looks it up, the step of the first write; while a
\* response is being written its id is not pending and no other handler
\* writes to the same public connection, so that no public connection gets
\* a second response; and when the writing ends, completed or failed, the
\* public connection is closed.
C29_PopThenWriteThenClose ==
    /\ [][ \A t \in TConns :
             ( /\ SrvValidFrame(t)
               /\ SrvFrameObject(t).type = "response"
               /\ pending_has(pending_requests, CarriedId(SrvFrameObject(t))) )
             => LET rid == CarriedId(SrvFrameObject(t))
                    web_writer == pending_writer(pending_requests, rid)
                IN  /\ ~pending_has(pending_requests', rid)
                    /\ \/ webOut'[web_writer] # webOut[web_writer]
                       \/ webClosed'[web_writer] ]_vars
    /\ [](\A t \in TConns :
            srvPhase[t] = "deliver"
            => /\ ~pending_has(pending_requests, srvJob[t].rid)
               /\ ~webClosed[srvJob[t].web]
               /\ \A u \in TConns \ {t} :
                    srvPhase[u] = "deliver" => srvJob[u].web # srvJob[t].web)
    /\ [](\A c \in Conns : \A i, j \in RelayedTo(c) :
            webOut[c][i].off = webOut[c][j].off => i = j)
    /\ [][ \A t \in TConns :
             (srvPhase[t] = "deliver" /\ srvPhase'[t] # "deliver")
             => webClosed'[srvJob[t].web] ]_vars

\* The one request was answered by the client and the answer was replayed
\* by the rogue peer; F has read both frames; the write of the response
\* failed part-way and the public connection is closed, one response begun
\* on it.
C29_Witness ==
    \E c \in Conns :
        /\ nextId = 1
        /\ webRid[c] = 1
        /\ emitted = << 1 >>
        /\ c2f[CliConn] = <<>> /\ srvPhase[CliConn] = "len"
        /\ tconn[RogueConn] = "open"
        /\ c2f[RogueConn] = <<>> /\ srvPhase[RogueConn] = "len"
        /\ sigFailed[RogueConn] = 0
        /\ HasWriter(clients, CliConn)
        /\ webFailed[c]
        /\ webClosed[c]
        /\ Cardinality(ResponsesBegun(c)) = 1

\* C30: for every record of the pending table, F has written nothing to
\* the record's public connection and has not closed it.
C30_PendingConnectionUntouched ==
    \A r \in DOMAIN pending_requests :
        /\ webOut[pending_writer(pending_requests, r)] = <<>>
        /\ ~webClosed[pending_writer(pending_requests, r)]

\* One request is pending while the response to the other has been written
\* out and its connection closed.
C30_Witness ==
    \E c, d \in Conns :
        /\ pending_has(pending_requests, webRid[c])
        /\ ~pending_has(pending_requests, webRid[d])
        /\ RelayedTo(d) # {}
        /\ webClosed[d]

(***************************************************************************)
(* The registry under any validly signed input.  Each tunnel connection    *)
(* is written to by a peer that holds the secret, or that sends again      *)
(* frames of peers that do: any registration frame, for either of two      *)
(* client ids, a response frame, or a frame whose signature field is not   *)
(* text.  No public request is made.                                       *)
(***************************************************************************)
RegEnv == 4                \* frames written, connections lost and jumps of the clock
SecondId == 3              \* the client_id of a second TCPTunnelClient

PeerFrames ==
    { SignedMessage(SecretKey, RegisterPayload(ClientId)),
      SignedMessage(SecretKey, RegisterPayload(SecondId)),
      SignedMessage(SecretKey, ResponsePayload(1, <<>>)),
      Message(NotUtf8, json_dumps(ResponsePayload(1, <<>>))) }

\* A peer connects to the tunnel port, if it has not yet, and writes one frame.
peer_send(t, m) ==
    /\ tconn[t] # "lost"
    /\ srvPhase[t] # "closed"
    /\ envLeft > 0
    /\ envLeft' = envLeft - 1
    /\ tconn' = [tconn EXCEPT ![t] = "open"]
    /\ srvPhase' = [srvPhase EXCEPT ![t] = IF srvPhase[t] = "none" THEN "len" ELSE srvPhase[t]]
    /\ c2f' = [c2f EXCEPT ![t] = c2f[t] \o m]
    /\ UNCHANGED << now, sweptAt, http, udp, clients, pending_requests, nextId, webVars, f2c,
                    srvSig, srvBuf, srvJob, sigFailed, lastFrame, cliVars, wire >>

RegInit ==
    /\ http = NoHttp
    /\ udp = NoUdp
    /\ envLeft = RegEnv
    /\ InitTunnel

RegNext ==
    \/ \E t \in TConns : \E m \in PeerFrames : peer_send(t, m)
    \/ \E t \in TConns : srv_read_len(t)
    \/ \E t \in TConns : srv_read_sig(t)
    \/ \E t \in TConns : srv_read_payload(t)
    \/ \E t \in TConns : tunnel_lost(t)
    \/ cleanup_inactive_clients
    \/ Tick

RegSpec == RegInit /\ [][RegNext]_vars

(***************************************************************************)
(* Claims about the registry.                                              *)
(***************************************************************************)
Records(cl) == { cl[i] : i \in DOMAIN cl }
SrvEnds(t) == srvPhase[t] # "closed" /\ srvPhase'[t] = "closed"

\* C31: in the step in which F's handler of a tunnel connection ends, the
\* records whose writer is that connection leave the registry and every
\* other record stays as it is; a read of the length or of the signature
\* at end of stream, and a signature that is not text, end the handler;
\* and no record names a closed connection as its writer.
C31_ConnectionEndDropsOwnRecords ==
    /\ [][ \A t \in TConns :
             SrvEnds(t)
             => Records(clients') = { r \in Records(clients) : r.writer # t } ]_vars
    /\ [][ \A t \in TConns :
             ( /\ srvPhase[t] \in {"len", "sig"}
               /\ srvPhase'[t] # srvPhase[t]
               /\ \/ srv_at_eof(t)
                  \/ srvPhase[t] = "sig" /\ Head(c2f[t]).s = NotUtf8 )
             => srvPhase'[t] = "closed" ]_vars
    /\ [](\A t \in TConns : srvPhase[t] = "closed" => ~HasWriter(clients, t))

\* Connection t registered ClientId, connection u registered it again, and
\* t has ended: the record, whose writer is u, is in the registry.
C31_Witness ==
    \E t, u \in TConns :
        /\ t # u
        /\ lastFrame[t].type = "register" /\ lastFrame[t].id = ClientId
        /\ lastFrame[u].type = "register" /\ lastFrame[u].id = ClientId
        /\ srvPhase[t] = "closed"
        /\ \E i \in DOMAIN clients : clients[i].id = ClientId /\ clients[i].writer = u

\* C32: in the step in which F processes a validly signed frame that is not
\* a registration, every record of the registry whose writer is the
\* frame's connection gets the current time as its last_seen.
C32_EveryRecordOfWriterRefreshed ==
    [][ \A t \in TConns :
          ( /\ SrvValidFrame(t)
            /\ SrvFrameObject(t).type # "register" )
          => \A i \in DOMAIN clients' :
                clients'[i].writer = t => clients'[i].last_seen = now ]_vars

WriterOf(cl, cid) == (CHOOSE r \in Records(cl) : r.id = cid).writer

\* C33: a step that puts a client id into the registry, or gives the
\* record of an id another writer, is the step in which F processes a
\* validly signed registration frame for that id, read from the
\* connection that is the record's writer afterwards.
C33_OnlyRegistrationInserts ==
    [][ \A cid \in RegisteredIds(clients') :
          ( \/ cid \notin RegisteredIds(clients)
            \/ WriterOf(clients', cid) # WriterOf(clients, cid) )
          => \E t \in TConns :
                /\ SrvValidFrame(t)
                /\ SrvFrameObject(t).type = "register"
                /\ SrvFrameObject(t).id = cid
                /\ WriterOf(clients', cid) = t ]_vars

\* The sweep has evicted the client while its tunnel connection was open;
\* F has since processed a response frame from that connection, and the
\* registry is empty.
C33_Witness ==
    /\ now = TickStep
    /\ sweptAt = now
    /\ clients = << >>
    /\ tconn[CliConn] = "open"
    /\ srvPhase[CliConn] = "len"
    /\ lastFrame[CliConn].type = "response"
    /\ lastFrame[CliConn].at = now

\* C34: a step of the sweep keeps every record with now - last_seen <= 300
\* as it is, adds none, leaves the pending table as it is, and neither
\* closes nor writes to any tunnel or public connection.
C34_SweepOnlyRemovesStale ==
    [][ cleanup_inactive_clients
        => /\ \A i \in DOMAIN clients :
                now - clients[i].last_seen <= InactiveTimeout
                => clients[i] \in Records(clients')
           /\ Records(clients') \subseteq Records(clients)
           /\ UNCHANGED << pending_requests, webOut, webClosed, tconn, srvPhase,
                           c2f, f2c >> ]_vars

\* Connection t registered one id at time 0, connection u another after
\* the clock moved; the sweep ran: the record of u is kept, that of t is
\* gone, and the connection t is open.
C34_Witness ==
    \E t, u \in TConns :
        /\ t # u
        /\ envLeft = RegEnv - 3
        /\ lastFrame[t].type = "register" /\ lastFrame[t].at = 0
        /\ lastFrame[u].type = "register" /\ lastFrame[u].at = TickStep
        /\ lastFrame[t].id # lastFrame[u].id
        /\ sweptAt = TickStep
        /\ clients = << [id |-> lastFrame[u].id, writer |-> u, last_seen |-> TickStep] >>
        /\ tconn[t] = "open"
        /\ srvPhase[t] = "len"

(***************************************************************************)
(* A public peer that stops reading.  As in undisturbed operation, but     *)
(* the peer of one public connection may leave its response unread for     *)
(* ever, so that web_writer.drain() for that connection need not return.   *)
(***************************************************************************)
StalledConn == 1

StalledSpec ==
    /\ Init
    /\ [][NextLive]_vars
    /\ \A c \in Conns : WF_vars(web_request_arrives(c))
    /\ \A c \in Conns : WF_vars(forward_drain_ok(c))
    /\ WF_vars(srv_read_len(CliConn))
    /\ WF_vars(srv_read_sig(CliConn))
    /\ WF_vars(srv_read_payload(CliConn))
    /\ WF_vars(srvJob[CliConn].web # StalledConn /\ srv_drain_ok(CliConn))
    /\ WF_vars(connect_to_server)
    /\ WF_vars(cli_read_len)
    /\ WF_vars(cli_read_sig)
    /\ WF_vars(cli_read_payload)
    /\ WF_vars(local_service_answers)
    /\ WF_vars(cli_drain_ok)

\* F is suspended in the write of a response to the stalled connection and
\* the whole response frame for the pending request of connection d, and
\* nothing else, waits unread on the same tunnel connection.
WaitsBehindStalled(d) ==
    /\ srvPhase[CliConn] = "deliver"
    /\ srvJob[CliConn].web = StalledConn
    /\ pending_has(pending_requests, webRid[d])
    /\ Len(c2f[CliConn]) = 4
    /\ json_ok(PayloadOf(c2f[CliConn]))
    /\ MessageId(c2f[CliConn]) = webRid[d]

\* C35: a response frame that arrives on the tunnel connection while F is
\* suspended writing to a public connection that is not read is in the end
\* read and delivered to its own public connection.
C35_LaterResponsesDelivered ==
    \A d \in Conns \ {StalledConn} : WaitsBehindStalled(d) ~> (RelayedTo(d) # {})

(***************************************************************************)
(* Claims about the TCP tunnel client.                                     *)
(***************************************************************************)
RegistrationFrame == SignedMessage(SecretKey, RegisterPayload(ClientId))

\* C36: before it has connected the client has read nothing and written
\* nothing; the step in which it connects writes the registration frame,
\* signed, with the client_id of the client object, and reads nothing; and
\* every registration frame the client ever wrote is that frame.
C36_RegistrationFirst ==
    /\ [](cliPhase = "init"
            => /\ c2f[CliConn] = <<>>
               /\ wire = {}
               /\ accepted = <<>>
               /\ emitted = <<>>)
    /\ [][ (cliPhase = "init" /\ cliPhase' # "init")
           => /\ c2f'[CliConn] = RegistrationFrame
              /\ f2c'[CliConn] = f2c[CliConn]
              /\ accepted' = <<>>
              /\ emitted' = <<>> ]_vars
    /\ [](\A m \in wire :
            json_loads(PayloadOf(m)).type = "register" => m = RegistrationFrame)
    /\ [](cliPhase # "init" => RegistrationFrame \in wire)

\* The client has registered, and has since accepted a request and written
\* the response frame for it.
C36_Witness ==
    /\ RegistrationFrame \in wire
    /\ accepted # <<>>
    /\ emitted # <<>>
    /\ cliPhase = "len"

\* The client takes bytes from its end of the tunnel connection.
ClientReads ==
    /\ tconn' = tconn
    /\ Len(f2c'[CliConn]) < Len(f2c[CliConn])
    /\ cliPhase \in {"len", "sig", "payload"}

\* A step in which the client accepts no request and takes no byte from
\* the connection.
StaysOffTheConnection ==
    /\ accepted' = accepted
    /\ cliBuf' = cliBuf
    /\ ~ClientReads
    /\ (tconn' = tconn /\ cliPhase' # "len") => (Len(f2c'[CliConn]) >= Len(f2c[CliConn]))

\* C37: while a request is being handled (local call, or response being
\* written) the client takes no byte from the connection and accepts no
\* request; whenever it does read, the response of every request accepted
\* so far has been written in full, so the responses written are, in order,
\* the requests accepted.
C37_OneRequestAtATime ==
    /\ [][ (cliPhase \in {"local", "send"}) => StaysOffTheConnection ]_vars
    /\ [][ ClientReads => emitted = accepted ]_vars
    /\ [](\E k \in {0, 1} :
             /\ Len(accepted) = Len(emitted) + k
             /\ emitted = SubSeq(accepted, 1, Len(emitted)))

\* The client has taken the first bytes of a second request frame after it
\* accepted a first request and wrote the response for it in full.
C37_Witness ==
    /\ Len(accepted) = 1
    /\ emitted = accepted
    /\ cliPhase = "payload"
    /\ cliBuf # <<>>

\* The client is in one of the reads of receive_messages and the stream is
\* at its end.
ClientSeesEof ==
    /\ cliPhase \in {"len", "sig", "payload"}
    /\ cli_at_eof

\* C38: once the tunnel connection is lost the client's receive loop ends
\* with connected = false, wherever the loss found it; from the read that
\* meets the end of the stream on, the client accepts no request and writes
\* nothing; and a client that has stopped stays stopped, unconnected and
\* silent.
C38_EndOfStreamStopsClient ==
    /\ (tconn[CliConn] = "lost") ~> (cliPhase = "stopped" /\ ~connected)
    /\ [](cliPhase = "stopped" => ~connected)
    /\ [][ ClientSeesEof
           => /\ cliPhase' \in {cliPhase, "len", "stopped"}
              /\ accepted' = accepted
              /\ wire' = wire
              /\ emitted' = emitted
              /\ Len(c2f'[CliConn]) <= Len(c2f[CliConn]) ]_vars
    /\ [][ (cliPhase = "stopped")
           => /\ cliPhase' = "stopped"
              /\ ~connected'
              /\ tconn'[CliConn] # "open" \/ tconn[CliConn] = "open"
              /\ wire' = wire
              /\ emitted' = emitted
              /\ Len(c2f'[CliConn]) <= Len(c2f[CliConn]) ]_vars

\* The connection was lost while the client was writing the response of
\* the one request it had accepted; the client has stopped.
C38_Witness ==
    /\ cliPhase = "stopped"
    /\ ~connected
    /\ tconn[CliConn] = "lost"
    /\ Len(accepted) = 1
    /\ emitted = <<>>

(***************************************************************************)
(* The UDP variant: UDPTunnelServer and its client (tunnel_server.py,      *)
(* tunnel_client.py).  A packet is a frame of the same layout, carried in  *)
(* one datagram; datagrams can be lost and duplicated, and anyone can send *)
(* one to the server's port.  The state is the record udp:                 *)
(*   now       time.time()                                                 *)
(*   clients   self.clients: client_id -> (address, last_seen)             *)
(*   pending   self.pending_requests: request id -> web_writer             *)
(*   nextId    request ids minted so far                                   *)
(*   web, out  per public connection: its handler's position, bytes written*)
(*   toClient, toServer   datagrams in flight                              *)
(*   cliUp     the client's endpoint is up (connection_made has run)       *)
(*   tasks     the client's handle_request tasks, by request id            *)
(*   sent      ids of the requests handed to transport.sendto              *)
(*   answered  ids popped from pending                                     *)
(*   early     ids of signed responses processed with no record present    *)
(*             and none popped before                                      *)
(*   env       adverse events left                                         *)
(***************************************************************************)
UdpEnv == 2
UdpAddr == 1               \* the client's (host, port)
RogueAddr == 2

\* The datagrams the two programs send.
ClientDatagrams ==
    { SignedMessage(SecretKey, RegisterPayload(ClientId)) }
    \cup { SignedMessage(SecretKey, ResponsePayload(r, <<200>>)) : r \in 1..NConns }
ServerDatagrams ==
    { SignedMessage(SecretKey, RequestPayload(r, <<c>>)) : r \in 1..NConns, c \in Conns }

UdpInit ==
    /\ udp = [pc |-> "run", now |-> 0,
              clients |-> << >>, pending |-> << >>, nextId |-> 0,
              web |-> [c \in Conns |-> "new"], out |-> [c \in Conns |-> <<>>],
              toClient |-> {}, toServer |-> {}, cliUp |-> FALSE, tasks |-> {},
              sent |-> {}, answered |-> {}, early |-> {}, env |-> UdpEnv]
    /\ http = NoHttp
    /\ envLeft = MaxEnv
    /\ InitTunnel

\* A variant of forward_to_client that suspends after sendto: the datagram
\* is out while the pending record is not yet stored.
udp_forward_to_client_suspended(u, c, rid) ==
    IF DOMAIN u.clients # {}
    THEN [u EXCEPT !.toClient = @ \cup { SignedMessage(SecretKey, RequestPayload(rid, <<c>>)) },
                   !.sent = @ \cup {rid},
                   !.web[c] = "waiting"]
    ELSE [u EXCEPT !.out[c] = <<503>>, !.web[c] = "drain503"]

\* UDPTunnelServer.forward_to_client up to its return or its first await:
\* with a client registered, transport.sendto and the pending record; with
\* none, the 503 is written and the handler waits in drain.
udp_forward_to_client(u, c, rid) ==
    IF DOMAIN u.clients # {}
    THEN [u EXCEPT !.toClient = @ \cup { SignedMessage(SecretKey, RequestPayload(rid, <<c>>)) },
                   !.sent = @ \cup {rid},
                   !.pending = pending_put(@, rid, c),
                   !.web[c] = "waiting"]
    ELSE [u EXCEPT !.out[c] = <<503>>, !.web[c] = "drain503"]

\* UDPTunnelServer.handle_request has read the request; it mints the id and
\* calls forward_to_client.
udp_handle_request(c) ==
    /\ udp.pc = "run"
    /\ udp.web[c] = "new"
    /\ udp' = udp_forward_to_client([udp EXCEPT !.nextId = @ + 1], c, udp.nextId + 1)
    /\ UNCHANGED << tunnelVars, http >>

\* await web_writer.drain() returns after the 503; web_writer.close()
udp_refused_close(c) ==
    /\ udp.pc = "run"
    /\ udp.web[c] = "drain503"
    /\ udp' = [udp EXCEPT !.web[c] = "closed"]
    /\ UNCHANGED << tunnelVars, http >>

\* The touch loop of handle_udp_packet: the record with the sender's
\* address gets the current time (client ids are drawn from {ClientId}, so
\* at most one record is there and the break is never short of a second).
udp_touch(cl, addr, ts) ==
    [cid \in DOMAIN cl |->
        IF cl[cid].addr = addr THEN [addr |-> addr, last_seen |-> ts] ELSE cl[cid]]

\* UDPTunnelServer.handle_udp_packet, the whole of it: it has no await.
handle_udp_packet(u, data, addr) ==
    IF Len(data) < 4 THEN u
    ELSE IF ~verify_signature(PayloadOf(data), data[2].s) THEN u
    ELSE LET response_data == json_loads(PayloadOf(data))
             request_id == CarriedId(response_data)
             touched == [u EXCEPT !.clients = udp_touch(@, addr, u.now)]
         IN  IF response_data.type = "register"
             THEN [u EXCEPT !.clients =
                      [cid \in (DOMAIN @) \cup {response_data.id} |->
                          IF cid = response_data.id
                          THEN [addr |-> addr, last_seen |-> u.now] ELSE @[cid]]]
             ELSE IF pending_has(u.pending, request_id)
             THEN [touched EXCEPT !.pending = pending_pop(@, request_id),
                                  !.answered = @ \cup {request_id},
                                  !.web[pending_writer(u.pending, request_id)] = "task"]
             ELSE IF request_id # NoId /\ request_id \notin u.answered
             THEN [touched EXCEPT !.early = @ \cup {request_id}]
             ELSE touched

\* datagram_received on the server: one datagram in flight arrives; the
\* network may deliver it again later.
udp_server_receives(data, again) ==
    /\ udp.pc = "run"
    /\ data \in udp.toServer
    /\ again => udp.env > 0
    /\ LET u == [udp EXCEPT !.toServer = IF again THEN @ ELSE @ \ {data},
                             !.env = IF again THEN @ - 1 ELSE @]
       IN  udp' = handle_udp_packet(u, data, UdpAddr)
    /\ UNCHANGED << tunnelVars, http >>

\* Someone without the secret sends a datagram to the server's port: a
\* response signed with another key, or a datagram too short to parse.
udp_forged(r) ==
    /\ udp.pc = "run"
    /\ udp.env > 0
    /\ \E data \in { SignedMessage(WrongKey, ResponsePayload(r, <<>>)), << [k |-> "len"] >> } :
         udp' = handle_udp_packet([udp EXCEPT !.env = @ - 1], data, RogueAddr)
    /\ UNCHANGED << tunnelVars, http >>

\* send_response, the task handle_udp_packet created: write, then drain.
udp_send_response(c) ==
    /\ udp.pc = "run"
    /\ udp.web[c] = "task"
    /\ udp' = [udp EXCEPT !.out[c] = <<200>>, !.web[c] = "drain"]
    /\ UNCHANGED << tunnelVars, http >>

\* await web_writer.drain() returns; web_writer.close()
udp_send_response_close(c) ==
    /\ udp.pc = "run"
    /\ udp.web[c] = "drain"
    /\ udp' = [udp EXCEPT !.web[c] = "closed"]
    /\ UNCHANGED << tunnelVars, http >>

\* await web_writer.drain() raises: the exception is printed, nothing is closed.
udp_send_response_fails(c) ==
    /\ udp.pc = "run"
    /\ udp.web[c] = "drain"
    /\ udp.env > 0
    /\ udp' = [udp EXCEPT !.web[c] = "failed", !.env = @ - 1]
    /\ UNCHANGED << tunnelVars, http >>

\* UDPTunnelServer.cleanup_inactive_clients
udp_cleanup_inactive_clients ==
    /\ udp.pc = "run"
    /\ \E cid \in DOMAIN udp.clients : is_inactive(udp.clients[cid], udp.now)
    /\ udp' = [udp EXCEPT !.clients =
                  [cid \in { x \in DOMAIN @ : ~is_inactive(@[x], udp.now) } |-> @[cid]]]
    /\ UNCHANGED << tunnelVars, http >>

udp_tick ==
    /\ udp.pc = "run"
    /\ udp.env > 0
    /\ \A cid \in DOMAIN udp.clients : ~is_inactive(udp.clients[cid], udp.now)
    /\ udp' = [udp EXCEPT !.now = @ + TickStep, !.env = @ - 1]
    /\ UNCHANGED << tunnelVars, http >>

\* The client: connection_made creates the register_with_server task, which
\* sends the registration datagram.
udp_client_registers ==
    /\ udp.pc = "run"
    /\ ~udp.cliUp
    /\ udp' = [udp EXCEPT !.cliUp = TRUE,
                          !.toServer = @ \cup { SignedMessage(SecretKey, RegisterPayload(ClientId)) }]
    /\ UNCHANGED << tunnelVars, http >>

\* The client's datagram_received: a validly signed datagram starts a
\* handle_request task.
udp_client_receives(data, again) ==
    /\ udp.pc = "run"
    /\ data \in udp.toClient
    /\ again => udp.env > 0
    /\ udp' = [udp EXCEPT !.toClient = IF again THEN @ ELSE @ \ {data},
                          !.env = IF again THEN @ - 1 ELSE @,
                          !.tasks = IF Len(data) >= 4 /\ verify_signature(PayloadOf(data), data[2].s)
                                    THEN @ \cup { json_loads(PayloadOf(data)).id } ELSE @]
    /\ UNCHANGED << tunnelVars, http >>

\* A handle_request task of the client: the local call returns and
\* send_response_to_server sends the response datagram.
udp_client_responds(r) ==
    /\ udp.pc = "run"
    /\ r \in udp.tasks
    /\ udp' = [udp EXCEPT !.tasks = @ \ {r},
                          !.toServer = @ \cup { SignedMessage(SecretKey, ResponsePayload(r, <<200>>)) }]
    /\ UNCHANGED << tunnelVars, http >>

\* A datagram is lost.
udp_lost ==
    /\ udp.pc = "run"
    /\ udp.env > 0
    /\ \/ \E data \in udp.toServer :
            udp' = [udp EXCEPT !.toServer = @ \ {data}, !.env = @ - 1]
       \/ \E data \in udp.toClient :
            udp' = [udp EXCEPT !.toClient = @ \ {data}, !.env = @ - 1]
    /\ UNCHANGED << tunnelVars, http >>

UdpNext ==
    \/ \E c \in Conns : udp_handle_request(c)
    \/ \E c \in Conns : udp_refused_close(c)
    \/ \E c \in Conns : udp_send_response(c)
    \/ \E c \in Conns : udp_send_response_close(c)
    \/ \E c \in Conns : udp_send_response_fails(c)
    \/ \E data \in ClientDatagrams, again \in BOOLEAN : udp_server_receives(data, again)
    \/ \E r \in 1..NConns : udp_forged(r)
    \/ udp_cleanup_inactive_clients
    \/ udp_tick
    \/ udp_client_registers
    \/ \E data \in ServerDatagrams, again \in BOOLEAN : udp_client_receives(data, again)
    \/ \E r \in 1..NConns : udp_client_responds(r)
    \/ udp_lost

UdpSpec == UdpInit /\ [][UdpNext]_vars

\* C39: every request id handed to sendto has its pending record or has
\* been answered from it, so no signed response datagram is ever processed
\* for an id whose record is not yet stored.
C39_RecordStoredBeforeResponse ==
    /\ udp.pc = "run"
    /\ udp.sent \subseteq ((DOMAIN udp.pending) \cup udp.answered)
    /\ udp.early = {}

\* A response datagram has been processed: its record was found and popped,
\* and the task that writes to the public connection was created.
C39_Witness ==
    /\ udp.pc = "run"
    /\ udp.answered # {}
    /\ \E c \in Conns : udp.web[c] \in {"task", "drain", "closed"} /\ udp.out[c] # <<503>>

====
